---- MODULE Spec2Model ----
(***************************************************************************)
(* Model of the metadata-capture application: the record model, the XML    *)
(* codec (XmlService), the search engine (SearchService), the export scan  *)
(* (ExportService._collect_records), the schema normalizer                 *)
(* (ensure_default_fields), the schema catalog with its list objects, and  *)
(* the title, form and session operations of the UI.                       *)
(*                                                                         *)
(* A Python str is a sequence of one-character strings; None is the        *)
(* sentinel sequence None.  A Python dict is a sequence of [name, value]   *)
(* entries in insertion order with unique names.                           *)
(***************************************************************************)
EXTENDS Integers, Sequences, FiniteSets, TLC

VARIABLES
    files,          \* the folder on disk: file name -> document
    folder_exists,  \* whether the folder exists on disk
    record,         \* the MetadataRecord the caller holds
    before,         \* that record as it was when the last operation was invoked;
                    \* under SpecSaves the folder as the last save found it
    call,           \* the operation invoked last, with its arguments
    result,         \* what that operation returned or raised
    session,        \* st.session_state of the UI session
    heap            \* the list objects of the schema catalog and of its callers

vars == <<files, folder_exists, record, before, call, result, session, heap>>

(***************************************************************************)
(* Strings                                                                 *)
(***************************************************************************)
None == <<"None">>

UpperLetters ==
    <<"A", "B", "C", "D", "E", "F", "G", "H", "I", "J", "K", "L", "M",
      "N", "O", "P", "Q", "R", "S", "T", "U", "V", "W", "X", "Y", "Z">>

LowerLetters ==
    <<"a", "b", "c", "d", "e", "f", "g", "h", "i", "j", "k", "l", "m",
      "n", "o", "p", "q", "r", "s", "t", "u", "v", "w", "x", "y", "z">>

Digits == <<"0", "1", "2", "3", "4", "5", "6", "7", "8", "9">>

\* The characters of code points 32..95, in code point order.
Printable ==
    <<" ", "!", "\"", "#", "$", "%", "&", "'", "(", ")", "*", "+", ",",
      "-", ".", "/">> \o Digits \o
    <<":", ";", "<", "=", ">", "?", "@">> \o UpperLetters \o
    <<"[", "\\", "]", "^", "_">>

\* The characters of code points 123..126.
Braces == <<"{", "|", "}", "~">>

\* The control characters of the model, with their code points.
Controls == <<"\t", "\n", "\f", "\r">>
ControlCodes == <<9, 10, 12, 13>>

IndexOf(seq, x) == CHOOSE i \in 1..Len(seq) : seq[i] = x

InSeq(seq, x) == \E i \in 1..Len(seq) : seq[i] = x

\* ord(ch)
Ord(ch) ==
    IF InSeq(Controls, ch) THEN ControlCodes[IndexOf(Controls, ch)]
    ELSE IF InSeq(LowerLetters, ch) THEN 96 + IndexOf(LowerLetters, ch)
    ELSE IF InSeq(Braces, ch) THEN 122 + IndexOf(Braces, ch)
    ELSE 31 + IndexOf(Printable, ch)

\* str.lower(), one character
LowerChar(ch) ==
    IF InSeq(UpperLetters, ch) THEN LowerLetters[IndexOf(UpperLetters, ch)]
    ELSE ch

\* str.lower()
Lower(s) == [i \in 1..Len(s) |-> LowerChar(s[i])]

\* str.isspace(), one character
IsSpace(ch) == ch \in {" ", "\t", "\n", "\f", "\r"}

\* str.isalnum(), one character
IsAlnum(ch) == InSeq(UpperLetters, ch) \/ InSeq(LowerLetters, ch) \/ InSeq(Digits, ch)

RECURSIVE LStrip(_)
LStrip(s) ==
    IF s # <<>> /\ IsSpace(Head(s)) THEN LStrip(Tail(s)) ELSE s

RECURSIVE RStrip(_)
RStrip(s) ==
    IF s # <<>> /\ IsSpace(s[Len(s)]) THEN RStrip(SubSeq(s, 1, Len(s) - 1)) ELSE s

\* str.strip()
Strip(s) == RStrip(LStrip(s))

\* needle in hay
Contains(hay, needle) ==
    \E i \in 0..(Len(hay) - Len(needle)) :
        SubSeq(hay, i + 1, i + Len(needle)) = needle

\* a < b for str: lexicographic by code point
RECURSIVE StrLess(_, _)
StrLess(a, b) ==
    IF b = <<>> THEN FALSE
    ELSE IF a = <<>> THEN TRUE
    ELSE IF Head(a) = Head(b) THEN StrLess(Tail(a), Tail(b))
    ELSE Ord(Head(a)) < Ord(Head(b))

\* x or y, for an optional str
OrElse(x, y) == IF x = None \/ x = <<>> THEN y ELSE x

(***************************************************************************)
(* dict, as a sequence of [name, value] entries                            *)
(***************************************************************************)
Entry(name, value) == [name |-> name, value |-> value]

DictHas(d, k) == \E i \in 1..Len(d) : d[i].name = k

\* d.get(k, default)
DictGet(d, k, default) ==
    IF DictHas(d, k) THEN d[CHOOSE i \in 1..Len(d) : d[i].name = k].value
    ELSE default

\* d[k] = v
DictSet(d, k, v) ==
    IF DictHas(d, k)
    THEN [i \in 1..Len(d) |-> IF d[i].name = k THEN [name |-> k, value |-> v] ELSE d[i]]
    ELSE Append(d, [name |-> k, value |-> v])

\* d.setdefault(k, v)
DictSetDefault(d, k, v) == IF DictHas(d, k) THEN d ELSE DictSet(d, k, v)

\* d.values()
DictValues(d) == [i \in 1..Len(d) |-> d[i].value]

(***************************************************************************)
(* models/metadata_record.py                                               *)
(***************************************************************************)
MetadataSection(name, fields, color) ==
    [name |-> name, fields |-> fields, color |-> color]

MetadataRecord(title, media_type, sections, media_path) ==
    [title |-> title, media_type |-> media_type,
     sections |-> sections, media_path |-> media_path]

\* The composite key of a field in the flattened view, f"{section}:{field}".
FlatKey(section_name, field_name) == section_name \o <<":">> \o field_name

RECURSIVE FlattenInto(_, _, _)
FlattenInto(flattened, section_name, fields) ==
    IF fields = <<>> THEN flattened
    ELSE FlattenInto(
            DictSet(flattened, FlatKey(section_name, Head(fields).name), Head(fields).value),
            section_name, Tail(fields))

RECURSIVE FlattenSections(_, _)
FlattenSections(flattened, sections) ==
    IF sections = <<>> THEN flattened
    ELSE FlattenSections(
            FlattenInto(flattened, Head(sections).name, Head(sections).fields),
            Tail(sections))

\* MetadataRecord.flatten
flatten(rec) == FlattenSections(<<>>, rec.sections)

\* FilterCriteria.key
key(criteria) == FlatKey(criteria.section, criteria.field)

(***************************************************************************)
(* config/schema.py                                                        *)
(***************************************************************************)
SectionDefinition(name, color, fields) ==
    [name |-> name, color |-> color, fields |-> fields]

SECTION_COLORS ==
    <<Entry(<<"A", "d", "m", "i", "n", "i", "s", "t", "r", "a", "t", "i", "v", "e">>,
            <<"#", "F", "F", "A", "5", "0", "0">>),
      Entry(<<"D", "e", "s", "c", "r", "i", "p", "t", "i", "v", "e">>,
            <<"#", "9", "3", "7", "0", "D", "B">>),
      Entry(<<"T", "e", "c", "h", "n", "i", "c", "a", "l", " ", "O", "r", "i", "g", "i", "n", "a", "l">>,
            <<"#", "B", "E", "B", "E", "B", "E">>),
      Entry(<<"T", "e", "c", "h", "n", "i", "c", "a", "l", " ", "M", "a", "s", "t", "e", "r">>,
            <<"#", "7", "0", "8", "0", "9", "0">>),
      Entry(<<"A", "c", "c", "e", "s", "s", " ", "C", "o", "p", "y">>,
            <<"#", "4", "6", "8", "2", "B", "4">>),
      Entry(<<"T", "e", "c", "h", "n", "i", "c", "a", "l", " ", "A", "c", "c", "e", "s", "s", " ", "C", "o", "p", "y">>,
            <<"#", "4", "6", "8", "2", "B", "4">>),
      Entry(<<"C", "a", "p", "t", "u", "r", "e", " ", "C", "h", "a", "i", "n">>,
            <<"#", "6", "A", "5", "A", "C", "D">>),
      Entry(<<"P", "r", "e", "s", "e", "r", "v", "a", "t", "i", "o", "n">>,
            <<"#", "3", "C", "B", "3", "7", "1">>)>>

\* _make_sections: one SectionDefinition per (name, color_key, fields)
RECURSIVE _make_sections(_)
_make_sections(definitions) ==
    IF definitions = <<>> THEN <<>>
    ELSE <<SectionDefinition(Head(definitions)[1],
                             DictGet(SECTION_COLORS, Head(definitions)[2], None),
                             Head(definitions)[3])>>
         \o _make_sections(Tail(definitions))

VIDEO_AUDIO_SECTIONS ==
    _make_sections(<<
      <<<<"A", "d", "m", "i", "n", "i", "s", "t", "r", "a", "t", "i", "v", "e">>,
        <<"A", "d", "m", "i", "n", "i", "s", "t", "r", "a", "t", "i", "v", "e">>,
        <<<<"T", "i", "t", "l", "e">>,
           <<"I", "d", "e", "n", "t", "i", "f", "i", "e", "r">>,
           <<"C", "o", "l", "l", "e", "c", "t", "i", "o", "n", "N", "a", "m", "e">>,
           <<"A", "c", "q", "u", "i", "s", "i", "t", "i", "o", "n", "M", "e", "t", "h", "o", "d">>,
           <<"D", "o", "n", "o", "r", "S", "o", "u", "r", "c", "e", "C", "o", "n", "t", "a", "c", "t">>,
           <<"C", "o", "n", "t", "r", "i", "b", "u", "t", "o", "r", "s">>,
           <<"D", "a", "t", "e", "O", "f", "C", "r", "e", "a", "t", "i", "o", "n">>,
           <<"R", "i", "g", "h", "t", "s", "H", "o", "l", "d", "e", "r">>,
           <<"A", "c", "c", "e", "s", "s", "C", "o", "n", "d", "i", "t", "i", "o", "n", "s">>,
           <<"H", "o", "l", "d", "i", "n", "g", "I", "n", "s", "t", "i", "t", "u", "t", "i", "o", "n">>,
           <<"C", "o", "p", "y", "R", "i", "g", "h", "t", "S", "t", "a", "t", "u", "s">>,
           <<"U", "s", "e", "r", "R", "e", "s", "t", "r", "i", "c", "t", "i", "o", "n", "s">>,
           <<"Q", "C", "S", "t", "a", "t", "u", "s">>,
           <<"Q", "C", "R", "e", "p", "o", "r", "t">>,
           <<"Q", "C", "O", "p", "e", "r", "a", "t", "o", "r">>>>>>,
      <<<<"D", "e", "s", "c", "r", "i", "p", "t", "i", "v", "e">>,
        <<"D", "e", "s", "c", "r", "i", "p", "t", "i", "v", "e">>,
        <<<<"I", "d", "e", "n", "t", "i", "f", "i", "e", "r">>,
           <<"T", "i", "t", "l", "e">>,
           <<"S", "u", "b", "j", "e", "c", "t">>,
           <<"S", "u", "m", "m", "a", "r", "y">>,
           <<"K", "e", "y", "W", "o", "r", "d", "s">>,
           <<"G", "e", "n", "r", "e">>,
           <<"C", "r", "e", "a", "t", "o", "r">>,
           <<"L", "a", "n", "g", "u", "a", "g", "e", "s">>,
           <<"G", "e", "o", "g", "r", "a", "p", "h", "i", "c", "L", "o", "c", "a", "t", "i", "o", "n">>,
           <<"E", "v", "e", "n", "t", "D", "a", "t", "e">>,
           <<"P", "e", "o", "p", "l", "e", "I", "n", "V", "i", "d", "e", "o">>>>>>,
      <<<<"T", "e", "c", "h", "n", "i", "c", "a", "l", " ", "O", "r", "i", "g", "i", "n", "a", "l">>,
        <<"T", "e", "c", "h", "n", "i", "c", "a", "l", " ", "O", "r", "i", "g", "i", "n", "a", "l">>,
        <<<<"S", "i", "g", "n", "a", "l", "T", "y", "p", "e">>,
           <<"F", "o", "r", "m", "a", "t", "L", "e", "v", "e", "l">>,
           <<"F", "o", "r", "m", "a", "t">>,
           <<"S", "i", "g", "n", "a", "l", "S", "t", "a", "n", "d", "a", "r", "d">>,
           <<"R", "e", "c", "o", "r", "d", "i", "n", "g", "M", "o", "d", "e">>,
           <<"T", "a", "p", "e", "L", "e", "n", "g", "t", "h", "M", "i", "n", "u", "t", "e", "s">>,
           <<"A", "u", "d", "i", "o", "C", "h", "a", "n", "n", "e", "l", "s">>,
           <<"C", "o", "n", "d", "i", "t", "i", "o", "n", "N", "o", "t", "e", "s">>,
           <<"O", "r", "i", "g", "i", "n", "a", "l", "L", "a", "b", "e", "l">>,
           <<"F", "o", "r", "m", "a", "t", "N", "o", "t", "e", "s">>>>>>,
      <<<<"T", "e", "c", "h", "n", "i", "c", "a", "l", " ", "M", "a", "s", "t", "e", "r">>,
        <<"T", "e", "c", "h", "n", "i", "c", "a", "l", " ", "M", "a", "s", "t", "e", "r">>,
        <<<<"F", "i", "l", "e", "F", "o", "r", "m", "a", "t">>,
           <<"B", "i", "t", "D", "e", "p", "t", "h">>,
           <<"R", "e", "s", "o", "l", "u", "t", "i", "o", "n">>,
           <<"F", "r", "a", "m", "e", "R", "a", "t", "e">>,
           <<"A", "s", "p", "e", "c", "t", "R", "a", "t", "i", "o">>,
           <<"W", "i", "d", "t", "h", "H", "e", "i", "g", "h", "t">>,
           <<"S", "c", "a", "n", "T", "y", "p", "e">>,
           <<"C", "o", "l", "o", "r", "S", "u", "b", "S", "a", "m", "p", "l", "i", "n", "g">>,
           <<"C", "o", "l", "o", "r", "S", "p", "a", "c", "e">>,
           <<"A", "u", "d", "i", "o", "F", "o", "r", "m", "a", "t">>,
           <<"A", "u", "d", "i", "o", "S", "a", "m", "p", "l", "e", "R", "a", "t", "e", "K", "H", "z">>,
           <<"A", "u", "d", "i", "o", "B", "i", "t", "D", "e", "p", "t", "h">>,
           <<"A", "u", "d", "i", "o", "C", "h", "a", "n", "n", "e", "l", "s", "C", "o", "u", "n", "t">>,
           <<"D", "a", "t", "a", "R", "a", "t", "e">>,
           <<"D", "u", "r", "a", "t", "i", "o", "n">>,
           <<"F", "i", "l", "e", "S", "i", "z", "e", "G", "B">>,
           <<"C", "h", "e", "c", "k", "s", "u", "m", "s">>,
           <<"E", "m", "b", "e", "d", "d", "e", "d", "M", "e", "t", "a", "d", "a", "t", "a", "S", "c", "h", "e", "m", "a">>>>>>,
      <<<<"A", "c", "c", "e", "s", "s", " ", "C", "o", "p", "y">>,
        <<"A", "c", "c", "e", "s", "s", " ", "C", "o", "p", "y">>,
        <<<<"C", "o", "n", "t", "a", "i", "n", "e", "r">>,
           <<"B", "i", "t", "D", "e", "p", "t", "h">>,
           <<"R", "e", "s", "o", "l", "u", "t", "i", "o", "n">>,
           <<"A", "u", "d", "i", "o", "C", "h", "a", "n", "n", "e", "l">>,
           <<"D", "u", "r", "a", "t", "i", "o", "n">>,
           <<"D", "a", "t", "a", "R", "a", "t", "e">>,
           <<"F", "i", "l", "e", "S", "i", "z", "e", "G", "B">>>>>>,
      <<<<"C", "a", "p", "t", "u", "r", "e", " ", "C", "h", "a", "i", "n">>,
        <<"C", "a", "p", "t", "u", "r", "e", " ", "C", "h", "a", "i", "n">>,
        <<<<"D", "i", "g", "i", "t", "i", "z", "a", "t", "i", "o", "n", "D", "a", "t", "e">>,
           <<"O", "p", "e", "r", "a", "t", "o", "r", "N", "a", "m", "e">>,
           <<"P", "l", "a", "y", "b", "a", "c", "k", "D", "e", "v", "i", "c", "e">>,
           <<"T", "B", "C", "M", "o", "d", "e", "l">>,
           <<"F", "r", "a", "m", "e", "S", "y", "n", "c", "h", "r", "o", "n", "i", "z", "e", "r">>,
           <<"C", "a", "p", "t", "u", "r", "e", "H", "a", "r", "d", "w", "a", "r", "e">>,
           <<"C", "a", "p", "t", "u", "r", "e", "S", "o", "f", "t", "w", "a", "r", "e">>,
           <<"S", "i", "g", "n", "a", "l", "P", "a", "t", "h", "N", "o", "t", "e", "s">>,
           <<"A", "u", "d", "i", "o", "D", "e", "l", "a", "y", "A", "p", "p", "l", "i", "e", "d">>,
           <<"I", "s", "s", "u", "e", "s", "D", "u", "r", "i", "n", "g", "C", "a", "p", "t", "u", "r", "e">>>>>>,
      <<<<"P", "r", "e", "s", "e", "r", "v", "a", "t", "i", "o", "n">>,
        <<"P", "r", "e", "s", "e", "r", "v", "a", "t", "i", "o", "n">>,
        <<<<"S", "o", "u", "r", "c", "e", "P", "r", "o", "v", "e", "n", "a", "n", "c", "e">>,
           <<"P", "r", "e", "s", "e", "r", "v", "a", "t", "i", "o", "n", "A", "c", "t", "i", "o", "n", "s">>,
           <<"M", "i", "g", "r", "a", "t", "i", "o", "n", "H", "i", "s", "t", "o", "r", "y">>,
           <<"E", "r", "r", "o", "r", "R", "e", "p", "o", "r", "t", "s">>,
           <<"S", "t", "o", "r", "a", "g", "e", "L", "o", "c", "a", "t", "i", "o", "n">>,
           <<"B", "a", "c", "k", "u", "p", "D", "e", "t", "a", "i", "l", "s">>>>>>>>)

IMAGE_SECTIONS ==
    _make_sections(<<
      <<<<"A", "d", "m", "i", "n", "i", "s", "t", "r", "a", "t", "i", "v", "e">>,
        <<"A", "d", "m", "i", "n", "i", "s", "t", "r", "a", "t", "i", "v", "e">>,
        <<<<"T", "i", "t", "l", "e">>,
           <<"I", "d", "e", "n", "t", "i", "f", "i", "e", "r">>,
           <<"C", "o", "l", "l", "e", "c", "t", "i", "o", "n", "N", "a", "m", "e">>,
           <<"A", "c", "q", "u", "i", "s", "i", "t", "i", "o", "n", "M", "e", "t", "h", "o", "d">>,
           <<"D", "o", "n", "o", "r", "S", "o", "u", "r", "c", "e", "C", "o", "n", "t", "a", "c", "t">>,
           <<"C", "o", "n", "t", "r", "i", "b", "u", "t", "o", "r", "s">>,
           <<"D", "a", "t", "e", "O", "f", "C", "r", "e", "a", "t", "i", "o", "n">>,
           <<"R", "i", "g", "h", "t", "s", "H", "o", "l", "d", "e", "r">>,
           <<"A", "c", "c", "e", "s", "s", "C", "o", "n", "d", "i", "t", "i", "o", "n", "s">>,
           <<"H", "o", "l", "d", "i", "n", "g", "I", "n", "s", "t", "i", "t", "u", "t", "i", "o", "n">>,
           <<"C", "o", "p", "y", "R", "i", "g", "h", "t", "S", "t", "a", "t", "u", "s">>,
           <<"U", "s", "e", "r", "R", "e", "s", "t", "r", "i", "c", "t", "i", "o", "n", "s">>>>>>,
      <<<<"D", "e", "s", "c", "r", "i", "p", "t", "i", "v", "e">>,
        <<"D", "e", "s", "c", "r", "i", "p", "t", "i", "v", "e">>,
        <<<<"I", "d", "e", "n", "t", "i", "f", "i", "e", "r">>,
           <<"T", "i", "t", "l", "e">>,
           <<"K", "e", "y", "w", "o", "r", "d", "s">>,
           <<"G", "e", "n", "r", "e">>,
           <<"C", "r", "e", "a", "t", "o", "r">>,
           <<"L", "a", "n", "g", "u", "a", "g", "e", "s">>,
           <<"G", "e", "o", "g", "r", "a", "p", "h", "i", "c", "L", "o", "c", "a", "t", "i", "o", "n">>,
           <<"E", "v", "e", "n", "t", "D", "a", "t", "e">>,
           <<"P", "e", "o", "p", "l", "e", "I", "n", "P", "h", "o", "t", "o">>,
           <<"D", "e", "s", "c", "r", "i", "p", "t", "i", "o", "n">>>>>>,
      <<<<"T", "e", "c", "h", "n", "i", "c", "a", "l", " ", "O", "r", "i", "g", "i", "n", "a", "l">>,
        <<"T", "e", "c", "h", "n", "i", "c", "a", "l", " ", "O", "r", "i", "g", "i", "n", "a", "l">>,
        <<<<"F", "o", "r", "m", "a", "t">>,
           <<"C", "o", "n", "d", "i", "t", "i", "o", "n", "N", "o", "t", "e", "s">>>>>>,
      <<<<"T", "e", "c", "h", "n", "i", "c", "a", "l", " ", "M", "a", "s", "t", "e", "r">>,
        <<"T", "e", "c", "h", "n", "i", "c", "a", "l", " ", "M", "a", "s", "t", "e", "r">>,
        <<<<"F", "i", "l", "e", "F", "o", "r", "m", "a", "t">>,
           <<"B", "i", "t", "D", "e", "p", "t", "h">>,
           <<"W", "i", "d", "t", "h", "H", "e", "i", "g", "h", "t">>,
           <<"C", "o", "l", "o", "r", "S", "p", "a", "c", "e">>,
           <<"D", "P", "I">>,
           <<"F", "i", "l", "e", "S", "i", "z", "e", "G", "B">>,
           <<"C", "h", "e", "c", "k", "s", "u", "m">>>>>>,
      <<<<"T", "e", "c", "h", "n", "i", "c", "a", "l", " ", "A", "c", "c", "e", "s", "s", " ", "C", "o", "p", "y">>,
        <<"T", "e", "c", "h", "n", "i", "c", "a", "l", " ", "A", "c", "c", "e", "s", "s", " ", "C", "o", "p", "y">>,
        <<<<"F", "i", "l", "e", "F", "o", "r", "m", "a", "t">>,
           <<"B", "i", "t", "D", "e", "p", "t", "h">>,
           <<"W", "i", "d", "t", "h", "H", "e", "i", "g", "h", "t">>,
           <<"D", "P", "I">>,
           <<"F", "i", "l", "e", "S", "i", "z", "e", "G", "B">>>>>>,
      <<<<"C", "a", "p", "t", "u", "r", "e", " ", "C", "h", "a", "i", "n">>,
        <<"C", "a", "p", "t", "u", "r", "e", " ", "C", "h", "a", "i", "n">>,
        <<<<"D", "i", "g", "i", "t", "i", "z", "a", "t", "i", "o", "n", "D", "a", "t", "e">>,
           <<"O", "p", "e", "r", "a", "t", "o", "r", "N", "a", "m", "e">>,
           <<"S", "c", "a", "n", "n", "e", "r", "M", "o", "d", "e", "l">>>>>>,
      <<<<"P", "r", "e", "s", "e", "r", "v", "a", "t", "i", "o", "n">>,
        <<"P", "r", "e", "s", "e", "r", "v", "a", "t", "i", "o", "n">>,
        <<<<"E", "r", "r", "o", "r", "R", "e", "p", "o", "r", "t", "s">>,
           <<"S", "t", "o", "r", "a", "g", "e", "L", "o", "c", "a", "t", "i", "o", "n">>,
           <<"B", "a", "c", "k", "u", "p", "D", "e", "t", "a", "i", "l", "s">>>>>>>>)

SCHEMA_BY_MEDIA_TYPE ==
    <<Entry(<<"v", "i", "d", "e", "o">>, VIDEO_AUDIO_SECTIONS),
      Entry(<<"a", "u", "d", "i", "o">>, VIDEO_AUDIO_SECTIONS),
      Entry(<<"i", "m", "a", "g", "e">>, IMAGE_SECTIONS)>>

\* get_default_sections: a copy of the catalog entry, the video/audio layout for an unknown type
get_default_sections(media_type) ==
    LET sections == DictGet(SCHEMA_BY_MEDIA_TYPE, Lower(media_type), VIDEO_AUDIO_SECTIONS)
    IN  [i \in 1..Len(sections) |->
            SectionDefinition(sections[i].name, sections[i].color, sections[i].fields)]

(***************************************************************************)
(* The catalog as objects.  A Python list is an object at an address of    *)
(* the heap; a SectionDefinition is frozen, so it is a value whose fields  *)
(* entry is the address of its field list.                                 *)
(***************************************************************************)
VideoAudioAddr == 1

ImageAddr == 2

\* The module-level lists of schema.py: the two section lists, then the
\* field list of every section, as _make_sections builds them.
CatalogHeap ==
    LET va == VIDEO_AUDIO_SECTIONS
        im == IMAGE_SECTIONS
    IN  [a \in 1..(2 + Len(va) + Len(im)) |->
            IF a = VideoAudioAddr
            THEN [i \in 1..Len(va) |-> SectionDefinition(va[i].name, va[i].color, 2 + i)]
            ELSE IF a = ImageAddr
            THEN [i \in 1..Len(im) |->
                    SectionDefinition(im[i].name, im[i].color, 2 + Len(va) + i)]
            ELSE IF a <= 2 + Len(va) THEN va[a - 2].fields
            ELSE im[a - 2 - Len(va)].fields]

\* SCHEMA_BY_MEDIA_TYPE with the lists by address
SchemaAddresses ==
    <<Entry(<<"v", "i", "d", "e", "o">>, VideoAudioAddr),
      Entry(<<"a", "u", "d", "i", "o">>, VideoAudioAddr),
      Entry(<<"i", "m", "a", "g", "e">>, ImageAddr)>>

\* The sections a list object holds, each with the content of its field list.
Deref(h, addr) ==
    [i \in 1..Len(h[addr]) |->
        SectionDefinition(h[addr][i].name, h[addr][i].color, h[h[addr][i].fields])]

FieldsShared(h, addr) == [heap |-> h, addr |-> addr]

\* list(section.fields): a new list object with the same items
CopyFields(h, addr) == [heap |-> Append(h, h[addr]), addr |-> Len(h) + 1]

\* [SectionDefinition(section.name, section.color, list(section.fields))
\*  for section in sections]: a new list of new definitions
RECURSIVE CopySections(_, _, _)
CopySections(h, sections, copied) ==
    IF sections = <<>> THEN [heap |-> Append(h, copied), addr |-> Len(h) + 1]
    ELSE LET section == Head(sections)
             fields == CopyFields(h, section.fields)
         IN  CopySections(fields.heap, Tail(sections),
                 Append(copied, SectionDefinition(section.name, section.color, fields.addr)))

\* get_default_sections on the heap: the address of the list it returns
NewDefaultSections(h, media_type) ==
    LET sections == DictGet(SchemaAddresses, Lower(media_type), VideoAudioAddr)
    IN  CopySections(h, h[sections], <<>>)

(***************************************************************************)
(* st.session_state: the keys the UI keeps between script runs.  A key     *)
(* that is not set holds None; current_record is the sequence of the       *)
(* record, empty when the key is not set; fields maps the key of each form *)
(* widget that is set to its value.                                        *)
(***************************************************************************)
Session(current_record, current_xml_path, media_type, media_path, input, pending, fields) ==
    [current_record |-> current_record, current_xml_path |-> current_xml_path,
     media_type |-> media_type, current_media_path |-> media_path,
     media_path_input |-> input, media_path_input_pending |-> pending, fields |-> fields]

\* no key set: the session before the first script run
NoSession == Session(<<>>, None, None, None, None, None, [k \in {} |-> <<>>])

(***************************************************************************)
(* An XML document on disk, as the parser reads it back: wellformed tells  *)
(* whether ET.parse accepts it, root is the element tree.  An attribute or *)
(* an element text that is absent is None.                                 *)
(***************************************************************************)
Document(wellformed, root) == [wellformed |-> wellformed, root |-> root]

XmlField(name, text) == [name |-> name, text |-> text]

XmlSection(name, color, fields) == [name |-> name, color |-> color, fields |-> fields]

XmlRoot(mediaType, title, mediaPath, sections) ==
    [mediaType |-> mediaType, title |-> title, mediaPath |-> mediaPath, sections |-> sections]

\* A character XML 1.0 forbids: the serializer writes it, the parser rejects the file.
IsIllegalXmlChar(ch) == ch = "\f"

HasIllegalXmlChar(s) == \E i \in 1..Len(s) : IsIllegalXmlChar(s[i])

\* End-of-line handling of the parser in element text: "\r\n" and "\r" read back as "\n".
RECURSIVE NormalizeNewlines(_)
NormalizeNewlines(s) ==
    IF s = <<>> THEN <<>>
    ELSE IF Head(s) = "\r"
         THEN <<"\n">> \o NormalizeNewlines(
                 IF Len(s) > 1 /\ s[2] = "\n" THEN Tail(Tail(s)) ELSE Tail(s))
         ELSE <<Head(s)>> \o NormalizeNewlines(Tail(s))

\* The text the parser reads back from an element written with text s.
XmlText(s) == IF s = <<>> THEN None ELSE NormalizeNewlines(s)

(***************************************************************************)
(* services/metadata_repository.py                                         *)
(***************************************************************************)
XmlSuffix == <<".", "x", "m", "l">>

Untitled == <<"u", "n", "t", "i", "t", "l", "e", "d">>

\* "".join(ch for ch in title if ch.isalnum() or ch in (" ", "-", "_"))
RECURSIVE KeepSafeChars(_)
KeepSafeChars(title) ==
    IF title = <<>> THEN <<>>
    ELSE IF IsAlnum(Head(title)) \/ Head(title) \in {" ", "-", "_"}
         THEN <<Head(title)>> \o KeepSafeChars(Tail(title))
         ELSE KeepSafeChars(Tail(title))

\* SpacesToUnderscores leaving the spaces in.
SpacesKept(s) == s

\* s.replace(" ", "_")
SpacesToUnderscores(s) == [i \in 1..Len(s) |-> IF s[i] = " " THEN "_" ELSE s[i]]

\* str(n) for n >= 0
RECURSIVE IntToStr(_)
IntToStr(n) ==
    IF n < 10 THEN <<Digits[n + 1]>>
    ELSE IntToStr(n \div 10) \o <<Digits[(n % 10) + 1]>>

RECURSIVE FirstFree(_, _, _)
FirstFree(existing, base_filename, suffix) ==
    LET candidate == base_filename \o <<"_">> \o IntToStr(suffix) \o XmlSuffix
    IN  IF candidate \in existing
        THEN FirstFree(existing, base_filename, suffix + 1)
        ELSE candidate

\* get_record_path returning its first candidate whether or not it exists.
get_record_pathFirstCandidate(existing, title, media_type) ==
    LET safe_title == OrElse(SpacesToUnderscores(Strip(KeepSafeChars(title))), Untitled)
        base_filename == Lower(Lower(media_type) \o <<"_">> \o safe_title)
    IN  base_filename \o XmlSuffix

\* MetadataRepository.get_record_path, existing being the names in base_dir
get_record_path(existing, title, media_type) ==
    LET safe_title == OrElse(SpacesToUnderscores(Strip(KeepSafeChars(title))), Untitled)
        base_filename == Lower(Lower(media_type) \o <<"_">> \o safe_title)
        candidate == base_filename \o XmlSuffix
    IN  IF candidate \in existing
        THEN FirstFree(existing, base_filename, 1)
        ELSE candidate

(***************************************************************************)
(* services/xml_service.py                                                 *)
(***************************************************************************)
\* _resolve_path deriving the path whatever the hint.
_resolve_pathIgnoringHint(existing, rec, path_hint) ==
    get_record_path(existing, rec.title, rec.media_type)

\* XmlService._resolve_path
_resolve_path(existing, rec, path_hint) ==
    IF path_hint # None /\ path_hint # <<>>
    THEN path_hint
    ELSE get_record_path(existing, rec.title, rec.media_type)

WriteField(entry) == XmlField(entry.name, XmlText(OrElse(entry.value, <<>>)))

WriteSection(section) ==
    XmlSection(section.name,
               IF section.color # None /\ section.color # <<>> THEN section.color ELSE None,
               [i \in 1..Len(section.fields) |-> WriteField(section.fields[i])])

\* The element tree save_record builds for a record.
WriteRoot(rec) ==
    XmlRoot(rec.media_type,
            XmlText(Strip(rec.title)),
            XmlText(rec.media_path),
            [i \in 1..Len(rec.sections) |-> WriteSection(rec.sections[i])])

\* The strings of an element tree: attribute values and element texts.
RootStrings(root) ==
    {root.mediaType, root.title, root.mediaPath}
    \cup {root.sections[i].name : i \in 1..Len(root.sections)}
    \cup {root.sections[i].color : i \in 1..Len(root.sections)}
    \cup UNION {UNION {{root.sections[i].fields[j].name, root.sections[i].fields[j].text} :
                            j \in 1..Len(root.sections[i].fields)} :
                    i \in 1..Len(root.sections)}

\* The file tree.write leaves on disk: unparseable when some string holds a forbidden character.
WriteDocument(rec) ==
    LET root == WriteRoot(rec)
    IN  Document(\A s \in RootStrings(root) : ~HasIllegalXmlChar(s), root)

\* XmlService.save_record: the path written and the folder afterwards.
save_record(folder, rec, path_hint) ==
    LET path == _resolve_path(DOMAIN folder, rec, path_hint)
    IN  [path |-> path,
         files |-> [p \in (DOMAIN folder) \cup {path} |->
                        IF p = path THEN WriteDocument(rec) ELSE folder[p]]]

Returned(value) == [raised |-> FALSE, value |-> value]

Raised(error) == [raised |-> TRUE, value |-> error]

\* ReadFields without the trimming of the field text.
RECURSIVE ReadFieldsUntrimmed(_, _)
ReadFieldsUntrimmed(fields, field_elements) ==
    IF field_elements = <<>> THEN fields
    ELSE ReadFieldsUntrimmed(
            DictSet(fields,
                    IF Head(field_elements).name = None
                    THEN <<"U", "n", "n", "a", "m", "e", "d", " ", "F", "i", "e", "l", "d">>
                    ELSE Head(field_elements).name,
                    OrElse(Head(field_elements).text, <<>>)),
            Tail(field_elements))

RECURSIVE ReadFields(_, _)
ReadFields(fields, field_elements) ==
    IF field_elements = <<>> THEN fields
    ELSE ReadFields(
            DictSet(fields,
                    IF Head(field_elements).name = None
                    THEN <<"U", "n", "n", "a", "m", "e", "d", " ", "F", "i", "e", "l", "d">>
                    ELSE Head(field_elements).name,
                    Strip(OrElse(Head(field_elements).text, <<>>))),
            Tail(field_elements))

ReadSection(section_element) ==
    MetadataSection(
        IF section_element.name = None
        THEN <<"U", "n", "k", "n", "o", "w", "n">>
        ELSE section_element.name,
        ReadFields(<<>>, section_element.fields),
        section_element.color)

\* load_record answering a document it cannot parse with an empty record.
load_recordSwallowing(folder, path) ==
    IF path \notin DOMAIN folder \/ ~folder[path].wellformed
    THEN Returned(MetadataRecord(<<>>, <<>>, <<>>, <<>>))
    ELSE LET root == folder[path].root
         IN  Returned(MetadataRecord(
                 IF root.title = None THEN <<>> ELSE root.title,
                 IF root.mediaType = None THEN <<>> ELSE root.mediaType,
                 [i \in 1..Len(root.sections) |-> ReadSection(root.sections[i])],
                 IF root.mediaPath # None /\ root.mediaPath # <<>>
                 THEN Strip(root.mediaPath) ELSE <<>>))

\* XmlService.load_record: the record, or the error ET.parse raises.
load_record(folder, path) ==
    IF path \notin DOMAIN folder THEN Raised("FileNotFoundError")
    ELSE IF ~folder[path].wellformed THEN Raised("ParseError")
    ELSE LET root == folder[path].root
         IN  Returned(MetadataRecord(
                 IF root.title = None THEN <<>> ELSE root.title,
                 IF root.mediaType = None THEN <<>> ELSE root.mediaType,
                 [i \in 1..Len(root.sections) |-> ReadSection(root.sections[i])],
                 IF root.mediaPath # None /\ root.mediaPath # <<>>
                 THEN Strip(root.mediaPath) ELSE <<>>))

(***************************************************************************)
(* services/search_service.py, services/export_service.py                  *)
(***************************************************************************)
EndsWith(s, suffix) ==
    /\ Len(s) >= Len(suffix)
    /\ SubSeq(s, Len(s) - Len(suffix) + 1, Len(s)) = suffix

\* folder.glob("*.xml"): the names of the folder that end in ".xml"
Glob(folder) == {p \in DOMAIN folder : EndsWith(p, XmlSuffix)}

\* sorted(paths, reverse=True)
RECURSIVE sortedDescending(_)
sortedDescending(paths) ==
    IF paths = {} THEN <<>>
    ELSE LET last == CHOOSE p \in paths : \A q \in paths \ {p} : StrLess(q, p)
         IN  <<last>> \o sortedDescending(paths \ {last})

\* sorted(paths)
RECURSIVE sorted(_)
sorted(paths) ==
    IF paths = {} THEN <<>>
    ELSE LET first == CHOOSE p \in paths : \A q \in paths \ {p} : StrLess(p, q)
         IN  <<first>> \o sorted(paths \ {first})

\* Path.stem: the name up to its last dot, unless that dot leads or ends the name.
stem(name) ==
    LET dots == {i \in 1..Len(name) : name[i] = "."}
        last == CHOOSE i \in dots : \A j \in dots : j <= i
    IN  IF dots = {} \/ last = 1 \/ last = Len(name) THEN name
        ELSE SubSeq(name, 1, last - 1)

\* The query normalization without strip().
NormalizeQueryUntrimmed(text_query) == Lower(OrElse(text_query, <<>>))

\* (text_query or "").strip().lower()
NormalizeQuery(text_query) == Lower(Strip(OrElse(text_query, <<>>)))

\* The filter evaluation without lower() on the value.
EvaluateFilterCaseSensitive(criteria, flattened) ==
    Contains(DictGet(flattened, key(criteria), <<>>), Lower(Strip(criteria.keyword)))

\* One filter against the flattened record: keyword in value.lower()
EvaluateFilter(criteria, flattened) ==
    LET value == DictGet(flattened, key(criteria), <<>>)
        keyword == Lower(Strip(criteria.keyword))
    IN  Contains(Lower(value), keyword)

\* The combination that ignores match_all: any(evaluations).
FiltersMatchAny(filters, match_all, flattened) ==
    IF filters # <<>>
    THEN \E i \in 1..Len(filters) : EvaluateFilter(filters[i], flattened)
    ELSE TRUE

\* filters_match
FiltersMatch(filters, match_all, flattened) ==
    IF filters # <<>>
    THEN LET evaluations == [i \in 1..Len(filters) |-> EvaluateFilter(filters[i], flattened)]
         IN  \/ match_all /\ \A i \in 1..Len(evaluations) : evaluations[i]
             \/ ~match_all /\ \E i \in 1..Len(evaluations) : evaluations[i]
    ELSE TRUE

\* The text match over the field values only.
TextMatchesValuesOnly(text_query_normalized, rec, xml_file, flattened) ==
    \E i \in 1..Len(flattened) : Contains(Lower(flattened[i].value), text_query_normalized)

\* any(text_query_normalized in (value or "").lower() for value in aggregated_values)
TextMatches(text_query_normalized, rec, xml_file, flattened) ==
    LET aggregated_values ==
            <<OrElse(rec.title, <<>>), OrElse(rec.media_type, <<>>), stem(xml_file), xml_file>>
            \o DictValues(flattened)
    IN  \E i \in 1..Len(aggregated_values) :
            Contains(Lower(OrElse(aggregated_values[i], <<>>)), text_query_normalized)

Matched(path, rec) == [path |-> path, record |-> rec]

\* The loop without the try/except around load_record.
RECURSIVE ScanUnguarded(_, _, _, _, _, _)
ScanUnguarded(matched, candidates, folder, filters, match_all, text_query_normalized) ==
    IF candidates = <<>> THEN Returned(matched)
    ELSE LET xml_file == Head(candidates)
             loaded == load_record(folder, xml_file)
             flattened == flatten(loaded.value)
         IN  IF loaded.raised THEN loaded
             ELSE IF ~FiltersMatch(filters, match_all, flattened)
             THEN ScanUnguarded(matched, Tail(candidates), folder, filters, match_all,
                                text_query_normalized)
             ELSE IF /\ text_query_normalized # <<>>
                     /\ ~TextMatches(text_query_normalized, loaded.value, xml_file, flattened)
             THEN ScanUnguarded(matched, Tail(candidates), folder, filters, match_all,
                                text_query_normalized)
             ELSE ScanUnguarded(Append(matched, Matched(xml_file, loaded.value)),
                                Tail(candidates), folder, filters, match_all,
                                text_query_normalized)

\* The loop taking a record that matches the filters or the text query.
RECURSIVE ScanEitherMatch(_, _, _, _, _, _)
ScanEitherMatch(matched, candidates, folder, filters, match_all, text_query_normalized) ==
    IF candidates = <<>> THEN Returned(matched)
    ELSE LET xml_file == Head(candidates)
             loaded == load_record(folder, xml_file)
             flattened == flatten(loaded.value)
         IN  IF loaded.raised
             THEN ScanEitherMatch(matched, Tail(candidates), folder, filters, match_all,
                                  text_query_normalized)
             ELSE IF \/ FiltersMatch(filters, match_all, flattened)
                     \/ /\ text_query_normalized # <<>>
                        /\ TextMatches(text_query_normalized, loaded.value, xml_file, flattened)
             THEN ScanEitherMatch(Append(matched, Matched(xml_file, loaded.value)),
                                  Tail(candidates), folder, filters, match_all,
                                  text_query_normalized)
             ELSE ScanEitherMatch(matched, Tail(candidates), folder, filters, match_all,
                                  text_query_normalized)

\* The loop of search over the candidates, matched being the list built so far.
RECURSIVE Scan(_, _, _, _, _, _)
Scan(matched, candidates, folder, filters, match_all, text_query_normalized) ==
    IF candidates = <<>> THEN Returned(matched)
    ELSE LET xml_file == Head(candidates)
             loaded == load_record(folder, xml_file)
             flattened == flatten(loaded.value)
         IN  IF loaded.raised
             THEN Scan(matched, Tail(candidates), folder, filters, match_all,
                       text_query_normalized)
             ELSE IF ~FiltersMatch(filters, match_all, flattened)
             THEN Scan(matched, Tail(candidates), folder, filters, match_all,
                       text_query_normalized)
             ELSE IF /\ text_query_normalized # <<>>
                     /\ ~TextMatches(text_query_normalized, loaded.value, xml_file, flattened)
             THEN Scan(matched, Tail(candidates), folder, filters, match_all,
                       text_query_normalized)
             ELSE Scan(Append(matched, Matched(xml_file, loaded.value)),
                       Tail(candidates), folder, filters, match_all,
                       text_query_normalized)

\* search that raises when it finds no document, as export_folder does.
searchRaisingOnNone(exists, folder, filters, match_all, text_query) ==
    IF ~exists \/ Glob(folder) = {} THEN Raised("FileNotFoundError")
    ELSE Scan(<<>>, sorted(Glob(folder)), folder, filters, match_all,
              NormalizeQuery(text_query))

\* SearchService.search
search(exists, folder, filters, match_all, text_query) ==
    IF ~exists THEN Returned(<<>>)
    ELSE Scan(<<>>, sorted(Glob(folder)), folder, filters, match_all,
              NormalizeQuery(text_query))

RECURSIVE CollectFrom(_, _, _)
CollectFrom(records, paths, folder) ==
    IF paths = <<>> THEN Returned(records)
    ELSE LET loaded == load_record(folder, Head(paths))
         IN  IF loaded.raised
             THEN CollectFrom(records, Tail(paths), folder)
             ELSE CollectFrom(Append(records, Matched(Head(paths), loaded.value)),
                              Tail(paths), folder)

\* ExportService._collect_records
_collect_records(exists, folder) ==
    IF ~exists THEN Returned(<<>>)
    ELSE CollectFrom(<<>>, sorted(Glob(folder)), folder)

(***************************************************************************)
(* services/xml_service.py: find_metadata_for_media                        *)
(***************************************************************************)
\* The working directory and the home directory of the process.
Cwd == <<"/", "m">>

Home == <<"/", "h">>

\* The components of a path, split at "/".
RECURSIVE SplitInto(_, _, _)
SplitInto(parts, current, s) ==
    IF s = <<>> THEN Append(parts, current)
    ELSE IF Head(s) = "/"
         THEN SplitInto(Append(parts, current), <<>>, Tail(s))
         ELSE SplitInto(parts, Append(current, Head(s)), Tail(s))

\* The components left when "", "." and ".." are resolved.
RECURSIVE Collapse(_, _)
Collapse(kept, parts) ==
    IF parts = <<>> THEN kept
    ELSE IF Head(parts) = <<>> \/ Head(parts) = <<".">>
         THEN Collapse(kept, Tail(parts))
         ELSE IF Head(parts) = <<".", ".">>
              THEN Collapse(IF kept = <<>> THEN kept ELSE SubSeq(kept, 1, Len(kept) - 1),
                            Tail(parts))
              ELSE Collapse(Append(kept, Head(parts)), Tail(parts))

RECURSIVE JoinPath(_)
JoinPath(parts) ==
    IF parts = <<>> THEN <<>>
    ELSE <<"/">> \o Head(parts) \o JoinPath(Tail(parts))

\* Path.expanduser: "~" is the home directory, "~name" a user nobody knows.
expanduser(path) ==
    IF path = <<>> \/ Head(path) # "~" THEN Returned(path)
    ELSE IF Len(path) = 1 \/ path[2] = "/" THEN Returned(Home \o Tail(path))
    ELSE Raised("RuntimeError")

\* Path.resolve in a file system without symbolic links.
resolve(path) ==
    LET absolute == IF path # <<>> /\ Head(path) = "/" THEN path ELSE Cwd \o <<"/">> \o path
        parts == Collapse(<<>>, SplitInto(<<>>, <<>>, absolute))
    IN  IF parts = <<>> THEN <<"/">> ELSE JoinPath(parts)

\* record_media_path of the loop: resolved, or as stored when that raises.
RecordMediaPath(media_path) ==
    LET expanded == expanduser(media_path)
    IN  IF expanded.raised THEN media_path ELSE resolve(expanded.value)

\* SameMedia comparing the path as stored.
SameMediaUnresolved(media_path, target) == media_path = target

\* record_media_path == target
SameMedia(media_path, target) == RecordMediaPath(media_path) = target

\* The loop of find_metadata_for_media over the candidates.
RECURSIVE Find(_, _, _)
Find(candidates, folder, target) ==
    IF candidates = <<>> THEN Returned(None)
    ELSE LET xml_file == Head(candidates)
             loaded == load_record(folder, xml_file)
         IN  IF loaded.raised
             THEN Find(Tail(candidates), folder, target)
             ELSE IF loaded.value.media_path = <<>>
             THEN Find(Tail(candidates), folder, target)
             ELSE IF SameMedia(loaded.value.media_path, target)
             THEN Returned(Matched(xml_file, loaded.value))
             ELSE Find(Tail(candidates), folder, target)

\* XmlService.find_metadata_for_media
find_metadata_for_media(exists, folder, media_path) ==
    LET expanded == expanduser(media_path)
    IN  IF expanded.raised THEN expanded
        ELSE Find(IF exists THEN sorted(Glob(folder)) ELSE <<>>, folder,
                  resolve(expanded.value))

(***************************************************************************)
(* ui/streamlit_app.py                                                     *)
(***************************************************************************)
\* section_map = {section.name: section for section in record.sections}
RECURSIVE SectionMap(_, _)
SectionMap(section_map, sections) ==
    IF sections = <<>> THEN section_map
    ELSE SectionMap(DictSet(section_map, Head(sections).name, Head(sections)), Tail(sections))

\* SetDefaults blanking the schema fields a section already holds.
RECURSIVE SetDefaultsOverwriting(_, _)
SetDefaultsOverwriting(fields, names) ==
    IF names = <<>> THEN fields
    ELSE SetDefaultsOverwriting(DictSet(fields, Head(names), <<>>), Tail(names))

\* for field in definition.fields: existing.fields.setdefault(field, "")
RECURSIVE SetDefaults(_, _)
SetDefaults(fields, names) ==
    IF names = <<>> THEN fields
    ELSE SetDefaults(DictSetDefault(fields, Head(names), <<>>), Tail(names))

\* NormalizedSection creating a missing section with an empty field map.
NormalizedSectionFreshEmpty(section_map, definition) ==
    IF DictHas(section_map, definition.name)
    THEN LET existing == DictGet(section_map, definition.name, None)
         IN  MetadataSection(
                existing.name,
                SetDefaults(existing.fields, definition.fields),
                IF existing.color = None \/ existing.color = <<>>
                THEN definition.color ELSE existing.color)
    ELSE MetadataSection(definition.name, <<>>, definition.color)

\* NormalizedSection giving every section the color of the schema.
NormalizedSectionSchemaColor(section_map, definition) ==
    IF DictHas(section_map, definition.name)
    THEN LET existing == DictGet(section_map, definition.name, None)
         IN  MetadataSection(
                existing.name,
                SetDefaults(existing.fields, definition.fields),
                definition.color)
    ELSE MetadataSection(definition.name, SetDefaults(<<>>, definition.fields), definition.color)

\* The section the loop of ensure_default_fields appends for one definition.
NormalizedSection(section_map, definition) ==
    IF DictHas(section_map, definition.name)
    THEN LET existing == DictGet(section_map, definition.name, None)
         IN  MetadataSection(
                existing.name,
                SetDefaults(existing.fields, definition.fields),
                IF existing.color = None \/ existing.color = <<>>
                THEN definition.color ELSE existing.color)
    ELSE MetadataSection(definition.name, SetDefaults(<<>>, definition.fields), definition.color)

\* ensure_default_fields keeping the sections the schema does not name.
ensure_default_fieldsKeepingUnknown(rec) ==
    LET section_map == SectionMap(<<>>, rec.sections)
        definitions == get_default_sections(rec.media_type)
        known == {definitions[i].name : i \in 1..Len(definitions)}
    IN  [rec EXCEPT !.sections =
            [i \in 1..Len(definitions) |-> NormalizedSection(section_map, definitions[i])]
            \o SelectSeq(rec.sections, LAMBDA section : section.name \notin known)]

ensure_default_fieldsLoweringType(rec) ==
    LET section_map == SectionMap(<<>>, rec.sections)
        definitions == get_default_sections(rec.media_type)
    IN  [rec EXCEPT !.media_type = Lower(@), !.sections =
            [i \in 1..Len(definitions) |-> NormalizedSection(section_map, definitions[i])]]

\* ensure_default_fields: the record after the call
ensure_default_fields(rec) ==
    LET section_map == SectionMap(<<>>, rec.sections)
        definitions == get_default_sections(rec.media_type)
    IN  [rec EXCEPT !.sections =
            [i \in 1..Len(definitions) |-> NormalizedSection(section_map, definitions[i])]]

Administrative == <<"A", "d", "m", "i", "n", "i", "s", "t", "r", "a", "t", "i", "v", "e">>

Title == <<"T", "i", "t", "l", "e">>

\* A call that leaves out a required positional argument raises TypeError
\* before the callee runs.
CallWithoutArgument == Raised("TypeError")

\* create_empty_record: one section per definition that get_default_sections()
\* gives, every field blank; the call passes no media type.
create_empty_record(media_type) ==
    LET definitions == CallWithoutArgument
    IN  IF definitions.raised THEN definitions
        ELSE Returned(MetadataRecord(<<>>, media_type,
                [i \in 1..Len(definitions.value) |->
                    MetadataSection(definitions.value[i].name,
                        [j \in 1..Len(definitions.value[i].fields) |->
                            Entry(definitions.value[i].fields[j], <<>>)],
                        definitions.value[i].color)],
                <<>>))

get_sectionCaseSensitive(rec, name) ==
    LET found == {i \in 1..Len(rec.sections) : rec.sections[i].name = name}
    IN  IF found = {} THEN 0 ELSE CHOOSE i \in found : \A j \in found : i <= j

\* MetadataRecord.get_section: the position of the first section whose name
\* equals the name whatever the case, 0 for None.
get_section(rec, name) ==
    LET found == {i \in 1..Len(rec.sections) : Lower(rec.sections[i].name) = Lower(name)}
    IN  IF found = {} THEN 0 ELSE CHOOSE i \in found : \A j \in found : i <= j

\* MetadataSection.set_field on the section at a position of the record.
set_field(rec, position, field_name, value) ==
    [rec EXCEPT !.sections[position].fields = DictSet(@, field_name, value)]

\* set_record_title leaving the Administrative section alone.
set_record_titleUnmirrored(rec, title) == [rec EXCEPT !.title = title]

\* set_record_title: the record after the call
set_record_title(rec, title) ==
    LET titled == [rec EXCEPT !.title = title]
        admin_section == get_section(titled, Administrative)
    IN  IF admin_section # 0
        THEN set_field(titled, admin_section, Title, title)
        ELSE titled

\* field_key: f"field::{section_name}::{field_name}"
field_key(section_name, field_name) ==
    <<"f", "i", "e", "l", "d", ":", ":">> \o section_name \o <<":", ":">> \o field_name

TITLE_FIELD_KEY ==
    <<"f", "i", "e", "l", "d", ":", ":", "A", "d", "m", "i", "n", "i", "s", "t", "r", "a", "t", "i", "v", "e", ":", ":", "T", "i", "t", "l", "e">>

\* The keys initialize_field_values writes for one section, with their values.
SeedFields(section) ==
    [k \in {field_key(section.name, section.fields[j].name) : j \in 1..Len(section.fields)} |->
        section.fields[CHOOSE j \in 1..Len(section.fields) :
                            field_key(section.name, section.fields[j].name) = k].value]

\* The keys written for the sections, a later section writing over an earlier one.
RECURSIVE SeedSections(_, _)
SeedSections(session_state, sections) ==
    IF sections = <<>> THEN session_state
    ELSE SeedSections(SeedFields(Head(sections)) @@ session_state, Tail(sections))

EmptySession == [k \in {} |-> <<>>]

\* st.session_state[key] = value
SessionSet(session_state, k, value) == (k :> value) @@ session_state

\* initialize_field_values(record, overwrite=True): the field keys of the session
initialize_field_values(rec) ==
    SessionSet(SeedSections(EmptySession, rec.sections), TITLE_FIELD_KEY, rec.title)

\* st.session_state.get(key, "")
SessionGet(session_state, k) == IF k \in DOMAIN session_state THEN session_state[k] ELSE <<>>

\* The section build_record_from_session makes of a section of the base record.
SessionSection(section, session_state) ==
    MetadataSection(
        section.name,
        [j \in 1..Len(section.fields) |->
            Entry(section.fields[j].name,
                  SessionGet(session_state, field_key(section.name, section.fields[j].name)))],
        section.color)

\* build_record_from_session, session holding the field keys and media_type
\* and media_path the other session values read.
build_record_from_session(base_record, session_state, media_type, media_path) ==
    LET sections == [i \in 1..Len(base_record.sections) |->
                        SessionSection(base_record.sections[i], session_state)]
        typed == Strip(SessionGet(session_state, TITLE_FIELD_KEY))
        exact == {i \in 1..Len(sections) : sections[i].name = Administrative}
        title_value ==
            IF typed = <<>> /\ sections # <<>> /\ exact # {}
            THEN DictGet(sections[CHOOSE i \in exact : \A j \in exact : i <= j].fields,
                         Title, <<>>)
            ELSE typed
        built == MetadataRecord(title_value, media_type, sections, Strip(media_path))
        admin_section == get_section(built, Administrative)
    IN  IF title_value # <<>> /\ admin_section # 0
        THEN set_field(built, admin_section, Title, title_value)
        ELSE built

(***************************************************************************)
(* Bounds                                                                  *)
(***************************************************************************)
MaxSections == 2    \* sections of a record handed to the codec
MaxDocuments == 2   \* documents the codec's folder grows to
MaxFiles == 3       \* files of a searched folder

SeqsUpTo(S, n) == UNION {[1..k -> S] : k \in 0..n}

(***************************************************************************)
(* Calls                                                                   *)
(***************************************************************************)
Call(op, path, path_hint, filters, match_all, text_query) ==
    [op |-> op, path |-> path, path_hint |-> path_hint,
     filters |-> filters, match_all |-> match_all, text_query |-> text_query]

NoCall == Call("none", None, None, <<>>, TRUE, None)

EmptyFolder == [p \in {} |-> Document(FALSE, XmlRoot(None, None, None, <<>>))]

(***************************************************************************)
(* The codec: a caller holding one record saves it and loads documents.    *)
(***************************************************************************)
CodecTitles == {<<>>, <<"T">>, <<" ", "t", " ", "x">>}

CodecMediaTypes == {<<"V", "i", "d", "e", "o">>, <<"i", "m", "a", "g", "e">>}

CodecMediaPaths == {<<>>, <<"m", " ">>}

CodecFieldMaps ==
    { <<>>,
      <<Entry(<<"F">>, <<" ", "v">>)>>,
      <<Entry(<<"F">>, <<"v">>), Entry(<<"G">>, <<>>)>> }

CodecSections ==
    {MetadataSection(n, f, None) : n \in {<<"S">>, <<"D">>}, f \in CodecFieldMaps}
    \cup {MetadataSection(<<"S">>, <<Entry(<<"G">>, <<"V", " ">>)>>, <<"#">>),
          MetadataSection(<<"S">>, <<Entry(<<"F">>, <<"a", "\f", "b">>)>>, None),
          MetadataSection(<<"S">>, <<Entry(<<"F">>, <<"a", "\r", "b">>)>>, <<>>)}

CodecRecords ==
    {MetadataRecord(t, m, ss, mp) :
        t \in CodecTitles, m \in CodecMediaTypes,
        ss \in SeqsUpTo(CodecSections, MaxSections), mp \in CodecMediaPaths}

\* Path hints a caller passes: none, or a document of the folder.
CodecHints == {None, <<"h", ".", "x", "m", "l">>}

\* Folders found at start: empty, or holding a document under the name the
\* naming policy derives first.
CodecFolders ==
    {EmptyFolder,
     [p \in {<<"v", "i", "d", "e", "o", "_", "t">> \o XmlSuffix} |->
        Document(FALSE, XmlRoot(None, None, None, <<>>))]}

InitCodec ==
    /\ files \in CodecFolders
    /\ folder_exists = TRUE
    /\ record \in CodecRecords
    /\ before = record
    /\ call = NoCall
    /\ result = Returned(None)
    /\ session = NoSession
    /\ heap = CatalogHeap

SaveRecord(path_hint) ==
    LET saved == save_record(files, record, path_hint)
    IN  /\ Cardinality(DOMAIN saved.files) <= MaxDocuments
        /\ files' = saved.files
        /\ call' = Call("save_record", None, path_hint, <<>>, TRUE, None)
        /\ result' = Returned(saved.path)
        /\ UNCHANGED <<folder_exists, record, before, session, heap>>

LoadRecord(path) ==
    /\ call' = Call("load_record", path, None, <<>>, TRUE, None)
    /\ result' = load_record(files, path)
    /\ UNCHANGED <<files, folder_exists, record, before, session, heap>>

NextCodec ==
    \/ \E path_hint \in CodecHints : SaveRecord(path_hint)
    \/ \E path \in DOMAIN files : LoadRecord(path)

SpecCodec == InitCodec /\ [][NextCodec]_vars

(***************************************************************************)
(* C1                                                                      *)
(***************************************************************************)
\* The section -> field -> value content of a section, whatever the field order.
SectionContent(section) ==
    [name |-> section.name,
     fields |-> {<<section.fields[i].name, section.fields[i].value>> :
                    i \in 1..Len(section.fields)}]

\* Two section lists hold the same sections, counted, whatever the order.
SameSections(ss1, ss2) ==
    \A c \in {SectionContent(ss1[i]) : i \in 1..Len(ss1)}
            \cup {SectionContent(ss2[i]) : i \in 1..Len(ss2)} :
        Cardinality({i \in 1..Len(ss1) : SectionContent(ss1[i]) = c})
            = Cardinality({i \in 1..Len(ss2) : SectionContent(ss2[i]) = c})

\* This step loads the document the previous step saved.
LoadsWhatWasSaved ==
    /\ call.op = "save_record"
    /\ call'.op = "load_record"
    /\ call'.path = result.value

\* The record with title, media path and field values trimmed.
Trimmed(rec) ==
    MetadataRecord(
        Strip(rec.title), rec.media_type,
        [i \in 1..Len(rec.sections) |->
            MetadataSection(
                rec.sections[i].name,
                [j \in 1..Len(rec.sections[i].fields) |->
                    Entry(rec.sections[i].fields[j].name,
                          Strip(rec.sections[i].fields[j].value))],
                rec.sections[i].color)],
        Strip(rec.media_path))

\* The strings of a record.
RecordStrings(rec) ==
    {rec.title, rec.media_type, rec.media_path}
    \cup {rec.sections[i].name : i \in 1..Len(rec.sections)}
    \cup {rec.sections[i].color : i \in 1..Len(rec.sections)}
    \cup UNION {UNION {{rec.sections[i].fields[j].name, rec.sections[i].fields[j].value} :
                            j \in 1..Len(rec.sections[i].fields)} :
                    i \in 1..Len(rec.sections)}

\* Every string of the record survives XML: no forbidden character, no carriage return.
XmlSafe(rec) ==
    \A s \in RecordStrings(rec) :
        \A i \in 1..Len(s) : ~IsIllegalXmlChar(s[i]) /\ s[i] # "\r"

SameRecordContent(r1, r2) ==
    /\ r1.media_type = r2.media_type
    /\ r1.title = r2.title
    /\ r1.media_path = r2.media_path
    /\ SameSections(r1.sections, r2.sections)

\* C1 as claimed: loading the document save_record wrote for a record r
\* yields a record with r's media type, title, media path and
\* section -> field -> value content, modulo ordering.
C1_RoundTripExact ==
    [][LoadsWhatWasSaved =>
        /\ ~result'.raised
        /\ SameRecordContent(result'.value, record)]_vars

\* C1 amended: for a record whose strings survive XML, loading the document
\* save_record wrote for it yields the record with title, media path and
\* field values trimmed of leading and trailing whitespace, modulo ordering.
C1_RoundTripTrimmed ==
    [][(LoadsWhatWasSaved /\ XmlSafe(record)) =>
        /\ ~result'.raised
        /\ SameRecordContent(result'.value, Trimmed(record))]_vars

\* C1 witness: a padded record has been saved and loaded back.
C1_Witness ==
    /\ call.op = "load_record"
    /\ ~result.raised
    /\ XmlSafe(record)
    /\ record.sections # <<>>
    /\ Trimmed(record) # record
    /\ call.path \in DOMAIN files
    /\ files[call.path] = WriteDocument(record)

(***************************************************************************)
(* The search engine and the export scan over a folder snapshot.           *)
(***************************************************************************)
FilterCriteria(section, field, keyword) ==
    [section |-> section, field |-> field, keyword |-> keyword]

Malformed == Document(FALSE, XmlRoot(None, None, None, <<>>))

\* Documents found in a searched folder, written by any tool.
SearchDocuments ==
    { Malformed,
      Document(TRUE, XmlRoot(<<"v">>, <<"A", "b">>, None,
        <<XmlSection(<<"S">>, None,
            <<XmlField(<<"F">>, <<"a", " ", "b">>), XmlField(<<"G">>, None)>>)>>)),
      Document(TRUE, XmlRoot(<<"Q">>, None, <<"m">>,
        <<XmlSection(<<"S">>, <<"#">>, <<XmlField(<<"F">>, <<"c">>)>>)>>)),
      Document(TRUE, XmlRoot(None, <<"c">>, None, <<>>)),
      Document(TRUE, XmlRoot(<<"v">>, <<"q">>, None,
        <<XmlSection(<<"S">>, None, <<XmlField(<<"F">>, <<"b">>)>>),
          XmlSection(<<"S">>, None, <<XmlField(<<"F">>, <<" ", "A">>)>>)>>)) }

SearchNames == {<<"a">> \o XmlSuffix, <<"B">> \o XmlSuffix, <<"a", "_", "1">> \o XmlSuffix}

\* A file of the folder that is not a document.
OtherName == <<"n", ".", "t", "x", "t">>

SearchFolders ==
    UNION {{folder \in [names -> SearchDocuments] :
                OtherName \in names => folder[OtherName] = Malformed} :
            names \in {n \in SUBSET (SearchNames \cup {OtherName}) : Cardinality(n) <= MaxFiles}}

SearchFilters ==
    <<FilterCriteria(<<"S">>, <<"F">>, <<" ", "B", " ">>),
      FilterCriteria(<<"S">>, <<"G">>, <<" ">>),
      FilterCriteria(<<"S">>, <<"F">>, <<"a">>),
      FilterCriteria(<<"S">>, <<"F">>, <<"C">>),
      FilterCriteria(<<"s">>, <<"F">>, <<"a">>),
      FilterCriteria(<<"S">>, <<"G">>, <<>>)>>

SearchFilterLists ==
    {<<>>}
    \cup {<<SearchFilters[i]>> : i \in 1..Len(SearchFilters)}
    \cup {<<SearchFilters[i], SearchFilters[j]>> : i \in {1, 3}, j \in {3, 4, 5}}

SearchQueries ==
    {None, <<>>, <<" ">>, <<" ", "B", " ">>, <<"q">>, <<"c">>, <<".", "x">>, <<"_">>}

InitSearch ==
    /\ folder_exists \in BOOLEAN
    /\ files \in (IF folder_exists THEN SearchFolders ELSE {EmptyFolder})
    /\ record = MetadataRecord(<<>>, <<>>, <<>>, <<>>)
    /\ before = record
    /\ call = NoCall
    /\ result = Returned(None)
    /\ session = NoSession
    /\ heap = CatalogHeap

Search(filters, match_all, text_query) ==
    /\ call.op = "none"
    /\ call' = Call("search", None, None, filters, match_all, text_query)
    /\ result' = search(folder_exists, files, filters, match_all, text_query)
    /\ UNCHANGED <<files, folder_exists, record, before, session, heap>>

CollectRecords ==
    /\ call.op = "none"
    /\ call' = Call("_collect_records", None, None, <<>>, TRUE, None)
    /\ result' = _collect_records(folder_exists, files)
    /\ UNCHANGED <<files, folder_exists, record, before, session, heap>>

NextSearch ==
    \/ \E filters \in SearchFilterLists, match_all \in BOOLEAN, text_query \in SearchQueries :
            Search(filters, match_all, text_query)
    \/ CollectRecords

SpecSearch == InitSearch /\ [][NextSearch]_vars

(***************************************************************************)
(* C2 .. C8                                                                *)
(***************************************************************************)
\* The documents of the folder that load.
Loadable == {p \in Glob(files) : files[p].wellformed}

LoadedRecord(p) == load_record(files, p).value

\* The paths of the pairs returned.
ResultPaths == {result.value[i].path : i \in 1..Len(result.value)}

SearchReturned == call.op = "search" /\ ~result.raised

\* The text query of the call, trimmed and case-folded.
Query == Lower(Strip(IF call.text_query = None THEN <<>> ELSE call.text_query))

\* The flattened value of the record of p at the filter's key, "" when absent.
ValueAt(p, criteria) ==
    DictGet(flatten(LoadedRecord(p)), criteria.section \o <<":">> \o criteria.field, <<>>)

\* The filter holds of the record of p: trimmed, case-folded keyword in the case-folded value.
Holds(p, criteria) ==
    Contains(Lower(ValueAt(p, criteria)), Lower(Strip(criteria.keyword)))

\* The per-filter results of the call combined: all when match_all, else any.
Combined(p) ==
    IF call.match_all
    THEN \A i \in 1..Len(call.filters) : Holds(p, call.filters[i])
    ELSE \E i \in 1..Len(call.filters) : Holds(p, call.filters[i])

\* The strings the text query is looked up in.
TextTargets(p) ==
    {LoadedRecord(p).title, LoadedRecord(p).media_type,
     p, SubSeq(p, 1, Len(p) - Len(XmlSuffix))}
    \cup {flatten(LoadedRecord(p))[i].value : i \in 1..Len(flatten(LoadedRecord(p)))}

TextFound(p) == \E v \in TextTargets(p) : Contains(Lower(v), Query)

\* C2 as claimed: a single filter is true of a record exactly when the
\* case-folded keyword is a substring of the case-folded value at
\* 'section:field', the value being "" when the key is absent.
C2_FilterCaseFolded ==
    (SearchReturned /\ Len(call.filters) = 1 /\ Query = <<>>) =>
        \A p \in Loadable :
            p \in ResultPaths <=>
                Contains(Lower(ValueAt(p, call.filters[1])), Lower(call.filters[1].keyword))

\* C2 amended: a single filter is true of a record exactly when the trimmed,
\* case-folded keyword is a substring of the case-folded value at
\* 'section:field', the value being "" when the key is absent.
C2_FilterTrimmedCaseFolded ==
    (SearchReturned /\ Len(call.filters) = 1 /\ Query = <<>>) =>
        \A p \in Loadable : p \in ResultPaths <=> Holds(p, call.filters[1])

\* C2 witness: a padded keyword in another case selects one record and not another.
C2_Witness ==
    /\ SearchReturned /\ Len(call.filters) = 1 /\ Query = <<>>
    /\ Strip(call.filters[1].keyword) # call.filters[1].keyword
    /\ Strip(call.filters[1].keyword) # <<>>
    /\ \E p \in Loadable :
        /\ p \in ResultPaths
        /\ ~Contains(ValueAt(p, call.filters[1]), Strip(call.filters[1].keyword))
    /\ \E p \in Loadable : p \notin ResultPaths

\* C3: with filters, search keeps a record only if the per-filter results
\* combine to true (all of them when match_all, one of them otherwise),
\* whatever the text query.
C3_FiltersCombine ==
    (SearchReturned /\ call.filters # <<>>) =>
        \A p \in ResultPaths : p \in Loadable /\ Combined(p)

\* C3 witness: under match_all a record satisfying one of two filters is left
\* out although the text query alone finds it, and another record is kept.
C3_Witness ==
    /\ SearchReturned /\ Len(call.filters) = 2 /\ call.match_all /\ Query # <<>>
    /\ \E p \in Loadable :
        /\ Holds(p, call.filters[1]) # Holds(p, call.filters[2])
        /\ TextFound(p)
        /\ p \notin ResultPaths
    /\ ResultPaths # {}

\* C4: with a text query that is non-empty once trimmed and case-folded, a
\* record that passed the filters is returned exactly when the query is a
\* substring of its title, its media type, the file name with or without
\* extension, or a flattened value, compared case-insensitively.
C4_TextQuery ==
    (SearchReturned /\ Query # <<>>) =>
        \A p \in Loadable :
            (call.filters = <<>> \/ Combined(p)) => (p \in ResultPaths <=> TextFound(p))

\* C4 witness: the query is found in the media type alone of one record, and
\* a record where it is found nowhere is left out.
C4_Witness ==
    /\ SearchReturned /\ Query # <<>>
    /\ \E p \in ResultPaths :
        /\ Contains(Lower(LoadedRecord(p).media_type), Query)
        /\ ~Contains(Lower(LoadedRecord(p).title), Query)
        /\ ~Contains(Lower(p), Query)
        /\ \A i \in 1..Len(flatten(LoadedRecord(p))) :
                ~Contains(Lower(flatten(LoadedRecord(p))[i].value), Query)
    /\ \E p \in Loadable : (call.filters = <<>> \/ Combined(p)) /\ p \notin ResultPaths

\* C5: without filters and without text query (None, empty or blank), search
\* returns every loadable document, whatever match_all.
C5_ListAll ==
    (SearchReturned /\ call.filters = <<>> /\ Query = <<>>) =>
        /\ ResultPaths = Loadable
        /\ \A i \in 1..Len(result.value) :
                result.value[i].record = LoadedRecord(result.value[i].path)

\* C5 witness: a blank query, match_all false, and several documents returned.
C5_Witness ==
    /\ SearchReturned /\ call.filters = <<>> /\ ~call.match_all
    /\ call.text_query = <<" ">>
    /\ Cardinality(Loadable) >= 2
    /\ Len(result.value) = Cardinality(Loadable)

\* The folder without its documents that do not load.
WithoutUnloadable(folder) ==
    [p \in {q \in DOMAIN folder : q \in Glob(folder) => folder[q].wellformed} |-> folder[p]]

\* C6: a document that fails to load during a bulk scan is left out and the
\* scan goes on: no error is raised and the result is the result over the
\* folder without the unloadable documents.
C6_ScanSkipsUnloadable ==
    call.op \in {"search", "_collect_records"} =>
        /\ ~result.raised
        /\ call.op = "search" =>
                result = search(folder_exists, WithoutUnloadable(files), call.filters,
                                call.match_all, call.text_query)
        /\ call.op = "_collect_records" =>
                result = _collect_records(folder_exists, WithoutUnloadable(files))

\* C6 witness: a document sorted after an unloadable one is returned.
C6_Witness ==
    /\ call.op \in {"search", "_collect_records"} /\ ~result.raised
    /\ \E bad \in Glob(files) \ Loadable :
        \E p \in ResultPaths : StrLess(bad, p)

\* C7: the paths returned are in lexicographic order, each path a document
\* of the folder, none twice.
C7_PathOrder ==
    SearchReturned =>
        /\ \A i \in 1..Len(result.value) : result.value[i].path \in Glob(files)
        /\ \A i, j \in 1..Len(result.value) :
                i < j => StrLess(result.value[i].path, result.value[j].path)

\* C7 witness: three documents returned, an upper-case name among them.
C7_Witness ==
    /\ SearchReturned
    /\ Len(result.value) = 3
    /\ \E i \in 1..Len(result.value) : Lower(result.value[i].path) # result.value[i].path

\* C8: on a folder that does not exist, or holds no document, search
\* returns the empty list and raises nothing.
C8_NoFolderNoDocuments ==
    (call.op = "search" /\ (~folder_exists \/ Glob(files) = {})) =>
        ~result.raised /\ result.value = <<>>

\* C8 witness: a search with filters and a text query on a missing folder.
C8_Witness ==
    /\ call.op = "search"
    /\ ~folder_exists
    /\ call.filters # <<>>
    /\ Query # <<>>
    /\ ~result.raised
    /\ result.value = <<>>

(***************************************************************************)
(* The normalizer applied to a record, as often as the caller likes.       *)
(***************************************************************************)
\* Sections of records handed to the normalizer: of the schema with known
\* and unknown fields, with and without color, twice under one name, in
\* another case, of one layout only, and unknown to the schema.
NormSections ==
    { MetadataSection(Administrative,
        <<Entry(<<"L", "e", "g", "a", "c", "y">>, <<"x">>), Entry(Title, <<"T">>)>>, None),
      MetadataSection(Administrative, <<Entry(Title, <<>>)>>, <<"#", "1">>),
      MetadataSection(<<"P", "r", "e", "s", "e", "r", "v", "a", "t", "i", "o", "n">>, <<>>, <<>>),
      MetadataSection(<<"L", "e", "g", "a", "c", "y", "S", "e", "c", "t", "i", "o", "n">>,
        <<Entry(<<"O">>, <<"1">>)>>, None),
      MetadataSection(Lower(Administrative), <<Entry(Title, <<"t">>)>>, None),
      MetadataSection(<<"A", "c", "c", "e", "s", "s", " ", "C", "o", "p", "y">>,
        <<Entry(<<"F", "i", "l", "e", "F", "o", "r", "m", "a", "t">>, <<"m">>)>>, None) }

NormMediaTypes == {<<"V", "i", "d", "e", "o">>, <<"i", "m", "a", "g", "e">>, <<"p", "d", "f">>}

NormRecords ==
    {MetadataRecord(t, m, ss, <<>>) :
        t \in {<<>>, <<"T">>}, m \in NormMediaTypes,
        ss \in SeqsUpTo(NormSections, MaxSections)}

InitNorm ==
    /\ files = EmptyFolder
    /\ folder_exists = TRUE
    /\ record \in NormRecords
    /\ before = record
    /\ call = NoCall
    /\ result = Returned(None)
    /\ session = NoSession
    /\ heap = CatalogHeap

EnsureDefaultFields ==
    /\ before' = record
    /\ record' = ensure_default_fields(record)
    /\ call' = Call("ensure_default_fields", None, None, <<>>, TRUE, None)
    /\ result' = Returned(record')
    /\ UNCHANGED <<files, folder_exists, session, heap>>

Normalized == call.op = "ensure_default_fields"

\* Titles set on a record or typed into the form.
NormTitles == {<<>>, <<" ">>, <<" ", "N", " ">>}

\* set_record_title on the record of the session, which is a normalized one.
SetRecordTitle(title) ==
    /\ Normalized
    /\ before' = record
    /\ record' = set_record_title(record, title)
    /\ call' = Call("set_record_title", None, None, <<>>, TRUE, None)
    /\ result' = Returned(None)
    /\ UNCHANGED <<files, folder_exists, session, heap>>

\* build_record_from_session on the record of the session, the form seeded
\* from it or not, the title typed or left alone.
BuildRecordFromSession(seeded, typed) ==
    LET seeds == IF seeded THEN initialize_field_values(record) ELSE EmptySession
        session_state == IF typed = None THEN seeds ELSE SessionSet(seeds, TITLE_FIELD_KEY, typed)
    IN  /\ Normalized
        /\ before' = record
        /\ record' = build_record_from_session(record, session_state, record.media_type,
                                               record.media_path)
        /\ call' = Call("build_record_from_session", None, None, <<>>, TRUE, None)
        /\ result' = Returned(record')
        /\ UNCHANGED <<files, folder_exists, session, heap>>

\* create_empty_record for a media type; the call keeps the argument in path.
CreateEmptyRecord(media_type) ==
    /\ call' = Call("create_empty_record", media_type, None, <<>>, TRUE, None)
    /\ result' = create_empty_record(media_type)
    /\ UNCHANGED <<files, folder_exists, record, before, session, heap>>

\* Names asked of get_section.
NormNames ==
    {Administrative, <<"P", "R", "E", "S", "E", "R", "V", "A", "T", "I", "O", "N">>,
     <<"N", "o", "n", "e">>}

\* record.get_section(name); the call keeps the argument in path.  The
\* value returned is the sequence of the section found, empty for None.
GetSection(name) ==
    LET position == get_section(record, name)
    IN  /\ call' = Call("get_section", name, None, <<>>, TRUE, None)
        /\ result' = Returned(IF position = 0 THEN <<>> ELSE <<record.sections[position]>>)
        /\ UNCHANGED <<files, folder_exists, record, before, session, heap>>

NextNorm ==
    \/ EnsureDefaultFields
    \/ \E title \in NormTitles : SetRecordTitle(title)
    \/ \E seeded \in BOOLEAN, typed \in NormTitles \cup {None} :
            BuildRecordFromSession(seeded, typed)
    \/ \E media_type \in NormMediaTypes : CreateEmptyRecord(media_type)
    \/ \E name \in NormNames : GetSection(name)

SpecNorm == InitNorm /\ [][NextNorm]_vars

(***************************************************************************)
(* C9, C10                                                                 *)
(***************************************************************************)
\* The section names of the schema for the media type of a record.
SchemaNames(rec) ==
    {get_default_sections(rec.media_type)[i].name :
        i \in 1..Len(get_default_sections(rec.media_type))}

\* C9 as claimed: every field the record held before normalization, in a
\* section whose name is in the schema, is afterwards in the section of
\* that name with the same value.
C9_NoFieldDeleted ==
    Normalized =>
        \A i \in 1..Len(before.sections) :
            before.sections[i].name \in SchemaNames(before) =>
                \A j \in 1..Len(before.sections[i].fields) :
                    \E k \in 1..Len(record.sections) :
                        /\ record.sections[k].name = before.sections[i].name
                        /\ \E l \in 1..Len(record.sections[k].fields) :
                                record.sections[k].fields[l] = before.sections[i].fields[j]

\* C10: normalizing a normalized record changes nothing: same sections in
\* the same order, same fields and values, same colors.
C10_Idempotent ==
    Normalized => ensure_default_fields(record) = record

\* C10 witness: a record that normalization changed has been normalized again.
C10_Witness ==
    /\ Normalized
    /\ before = record
    /\ \E r \in NormRecords : r # record /\ ensure_default_fields(r) = record

(***************************************************************************)
(* C11, C12, C13                                                           *)
(***************************************************************************)
\* The names of a section list, in order.
SectionNames(sections) == [i \in 1..Len(sections) |-> sections[i].name]

\* The record holds a section of this exact name.
HasSection(rec, name) == \E i \in 1..Len(rec.sections) : rec.sections[i].name = name

\* The section of this name the normalizer works on: the last one of the record.
ExistingSection(rec, name) ==
    LET last == CHOOSE i \in 1..Len(rec.sections) :
                    /\ rec.sections[i].name = name
                    /\ \A j \in (i + 1)..Len(rec.sections) : rec.sections[j].name # name
    IN  rec.sections[last]

\* The schema of the record normalized last.
Definitions == get_default_sections(before.media_type)

C12_GapsFilledWithBlank ==
    Normalized =>
        \A k \in 1..Len(record.sections) :
            k <= Len(Definitions) =>
                LET definition == Definitions[k]
                    fields == record.sections[k].fields
                IN  IF HasSection(before, definition.name)
                    THEN LET existing == ExistingSection(before, definition.name)
                         IN  \A f \in 1..Len(definition.fields) :
                                /\ DictHas(fields, definition.fields[f])
                                /\ DictGet(fields, definition.fields[f], None)
                                    = DictGet(existing.fields, definition.fields[f], <<>>)
                    ELSE fields = [f \in 1..Len(definition.fields) |->
                                        Entry(definition.fields[f], <<>>)]

\* C12 witness: the normalized record had a schema section with a filled
\* schema field and one lacking a schema field, and lacked a schema section.
C12_Witness ==
    /\ Normalized
    /\ before # record
    /\ \E d \in 1..Len(Definitions) : ~HasSection(before, Definitions[d].name)
    /\ \E d \in 1..Len(Definitions) :
            /\ HasSection(before, Definitions[d].name)
            /\ \E f \in 1..Len(Definitions[d].fields) :
                    ~DictHas(ExistingSection(before, Definitions[d].name).fields,
                             Definitions[d].fields[f])
            /\ \E f \in 1..Len(Definitions[d].fields) :
                    DictGet(ExistingSection(before, Definitions[d].name).fields,
                            Definitions[d].fields[f], <<>>) # <<>>

\* C13: an existing section without a display color (absent or empty) gets
\* the color of the schema for its name, and one with a color keeps it.
C13_ColorInherited ==
    Normalized =>
        \A k \in 1..Len(record.sections) :
            (k <= Len(Definitions) /\ HasSection(before, Definitions[k].name)) =>
                LET existing == ExistingSection(before, Definitions[k].name)
                IN  record.sections[k].color =
                        IF existing.color = None \/ existing.color = <<>>
                        THEN Definitions[k].color
                        ELSE existing.color

\* C13 witness: the normalized record had a section with a color of its own,
\* one with an empty color or one with none.
C13_Witness ==
    /\ Normalized
    /\ \E d \in 1..Len(Definitions) :
            /\ HasSection(before, Definitions[d].name)
            /\ ExistingSection(before, Definitions[d].name).color \notin {None, <<>>, Definitions[d].color}
    /\ \E d \in 1..Len(Definitions) :
            /\ HasSection(before, Definitions[d].name)
            /\ ExistingSection(before, Definitions[d].name).color \in {None, <<>>}

(***************************************************************************)
(* The repository under a caller that saves one record after another, with *)
(* and without a path hint, and loads documents; `before` is the folder as *)
(* the last save found it.                                                 *)
(***************************************************************************)
SavesTitles == {<<>>, <<" ", "t", " ", " ", "X", "!">>}

SavesSectionLists ==
    {<<>>, <<MetadataSection(<<"S">>, <<Entry(<<"F">>, <<" ", "v">>)>>, None)>>}

SavesRecords ==
    {MetadataRecord(t, <<"V", "i", "d", "e", "o">>, ss, <<>>) :
        t \in SavesTitles, ss \in SavesSectionLists}

HintPath == <<"h", ".", "x", "m", "l">>

\* Folders found at start: empty, or holding a document that does not parse
\* under the name the naming policy derives first for an empty title.
SavesFolders ==
    {EmptyFolder,
     [p \in {<<"v", "i", "d", "e", "o", "_">> \o Untitled \o XmlSuffix} |->
        Document(FALSE, XmlRoot(None, None, None, <<>>))]}

InitSaves ==
    /\ files \in SavesFolders
    /\ folder_exists = TRUE
    /\ record \in SavesRecords
    /\ before = files
    /\ call = NoCall
    /\ result = Returned(None)
    /\ session = NoSession
    /\ heap = CatalogHeap

SaveRecordAs(rec, path_hint) ==
    LET saved == save_record(files, rec, path_hint)
    IN  /\ Cardinality(DOMAIN saved.files) <= MaxDocuments
        /\ record' = rec
        /\ before' = files
        /\ files' = saved.files
        /\ call' = Call("save_record", None, path_hint, <<>>, TRUE, None)
        /\ result' = Returned(saved.path)
        /\ UNCHANGED <<folder_exists, session, heap>>

NextSaves ==
    \/ \E rec \in SavesRecords, path_hint \in {None, HintPath} : SaveRecordAs(rec, path_hint)
    \/ \E path \in DOMAIN files \cup {HintPath} : LoadRecord(path)

SpecSaves == InitSaves /\ [][NextSaves]_vars

(***************************************************************************)
(* C14, C15, C16, C17                                                      *)
(***************************************************************************)
SavedWithoutHint == call.op = "save_record" /\ call.path_hint = None

SavedWithHint == call.op = "save_record" /\ call.path_hint # None

\* C14: save_record without a path hint writes a path that did not exist:
\* every document of the folder is still there unchanged and the folder has
\* gained exactly one file, the one returned.
C14_NeverOverwrites ==
    SavedWithoutHint =>
        /\ result.value \notin DOMAIN before
        /\ DOMAIN files = DOMAIN before \cup {result.value}
        /\ \A p \in DOMAIN before : files[p] = before[p]
        /\ Cardinality(DOMAIN files) = Cardinality(DOMAIN before) + 1

\* C14 witness: a record has been saved without hint into a folder that
\* held a document of the same title and media type.
C14_Witness ==
    /\ SavedWithoutHint
    /\ EndsWith(result.value, <<"_", "1">> \o XmlSuffix)
    /\ \E p \in DOMAIN before \ {HintPath} :
            /\ before[p].wellformed
            /\ before[p] = files[result.value]

\* The hint decides the path: exactly that path is written and returned.
HintPathWritten ==
    SavedWithHint =>
        /\ result.value = call.path_hint
        /\ DOMAIN files = DOMAIN before \cup {call.path_hint}
        /\ \A p \in DOMAIN before \ {call.path_hint} : files[p] = before[p]

\* This step loads the path a save with hint has just written over an
\* earlier document.
LoadsOverwritten ==
    /\ SavedWithHint
    /\ result.value \in DOMAIN before
    /\ LoadsWhatWasSaved

\* C15 as claimed: save_record with a path hint writes exactly that path and
\* returns it, no other document is created or changed, and loading a path
\* saved twice yields the content of the record saved last.
C15_LastWriteWinsExact ==
    /\ []HintPathWritten
    /\ [][LoadsOverwritten =>
            /\ ~result'.raised
            /\ SameRecordContent(result'.value, record)]_vars

\* C15 amended: save_record with a path hint writes exactly that path and
\* returns it, no other document is created or changed, and loading a path
\* saved twice yields the content of the record saved last with title, media
\* path and field values trimmed, provided its strings survive XML.
C15_LastWriteWinsTrimmed ==
    /\ []HintPathWritten
    /\ [][(LoadsOverwritten /\ XmlSafe(record)) =>
            /\ ~result'.raised
            /\ SameRecordContent(result'.value, Trimmed(record))]_vars

\* C15 witness: the hinted path, saved with one record and then with a
\* different one, has been loaded.
C15_Witness ==
    /\ call.op = "load_record"
    /\ call.path = HintPath
    /\ HintPath \in DOMAIN before
    /\ before[HintPath].wellformed
    /\ before[HintPath] # files[HintPath]
    /\ files[HintPath] = WriteDocument(record)
    /\ ~result.raised
    /\ Trimmed(record) # record

\* The characters a sanitized title keeps.
SafeChar(ch) == IsAlnum(ch) \/ ch \in {" ", "-", "_"}

\* The sanitized title as claimed: unsafe characters removed, each run of
\* spaces turned into one underscore, lower-cased.
ClaimedSanitizedTitle(title) ==
    LET kept == SelectSeq(title, SafeChar)
        first == {i \in 1..Len(kept) : kept[i] # " " \/ i = 1 \/ kept[i - 1] # " "}
        collapsed == [k \in 1..Cardinality(first) |->
                        LET i == CHOOSE i \in first : Cardinality({j \in first : j <= i}) = k
                        IN  IF kept[i] = " " THEN "_" ELSE kept[i]]
    IN  Lower(collapsed)

\* The sanitized title: unsafe characters removed, leading and trailing
\* spaces trimmed, each space left turned into an underscore, "untitled" when
\* nothing is left, lower-cased.
SanitizedTitle(title) ==
    LET kept == SelectSeq(title, SafeChar)
        inner == {i \in 1..Len(kept) :
                    /\ \E j \in 1..i : kept[j] # " "
                    /\ \E j \in i..Len(kept) : kept[j] # " "}
        trimmed == [k \in 1..Cardinality(inner) |->
                        kept[(CHOOSE i \in inner : \A j \in inner : i <= j) + k - 1]]
        replaced == [k \in 1..Len(trimmed) |-> IF trimmed[k] = " " THEN "_" ELSE trimmed[k]]
    IN  Lower(IF replaced = <<>> THEN Untitled ELSE replaced)

\* '<media type lower-cased>_<sanitized>' + '_N' for N > 0 + '.xml'
DerivedName(media_type, sanitized, n) ==
    Lower(media_type) \o <<"_">> \o sanitized
        \o (IF n = 0 THEN <<>> ELSE <<"_">> \o IntToStr(n)) \o XmlSuffix

\* The name returned is the first free one of base, base_1, base_2, ...
FirstFreeName(sanitized) ==
    \E n \in 0..Cardinality(DOMAIN before) :
        /\ result.value = DerivedName(record.media_type, sanitized, n)
        /\ \A m \in 0..(n - 1) : DerivedName(record.media_type, sanitized, m) \in DOMAIN before

\* C16 as claimed: the name derived for a record is
\* '<media type lower-cased>_<sanitized title>[_N].xml', the sanitized title
\* being the title without its unsafe characters, spaces collapsed to
\* underscores, lower-cased, and the first free of base, base_1, ... is taken.
C16_DerivedNameClaimed ==
    SavedWithoutHint => FirstFreeName(ClaimedSanitizedTitle(record.title))

\* C16 amended: as claimed, the sanitized title being the title without its
\* unsafe characters, trimmed of leading and trailing spaces, each space
\* left replaced by an underscore, "untitled" when nothing is left,
\* lower-cased.
C16_DerivedNameTrimmed ==
    SavedWithoutHint => FirstFreeName(SanitizedTitle(record.title))

\* C16 witness: a title with upper case, padding, a double space and an
\* unsafe character has been saved a second time without hint.
C16_Witness ==
    /\ SavedWithoutHint
    /\ record.title = <<" ", "t", " ", " ", "X", "!">>
    /\ result.value = <<"v", "i", "d", "e", "o", "_", "t", "_", "_", "x", "_", "1">> \o XmlSuffix
    /\ (<<"v", "i", "d", "e", "o", "_", "t", "_", "_", "x">> \o XmlSuffix) \in DOMAIN before

\* C17: load_record returns a record for every document that parses, with
\* no color for a section that has none and "" for a media path that is
\* missing, and raises exactly when the document does not parse or cannot be
\* read; the caller gets the parser's or the file system's own error.
C17_LoadOrError ==
    call.op = "load_record" =>
        IF call.path \in DOMAIN files /\ files[call.path].wellformed
        THEN LET root == files[call.path].root
             IN  /\ ~result.raised
                 /\ root.mediaPath = None => result.value.media_path = <<>>
                 /\ Len(result.value.sections) = Len(root.sections)
                 /\ \A i \in 1..Len(root.sections) :
                        root.sections[i].color = None =>
                            result.value.sections[i].color = None
        ELSE /\ result.raised
             /\ result.value = IF call.path \in DOMAIN files
                               THEN "ParseError" ELSE "FileNotFoundError"

\* C17 witness: loading a document that does not parse has raised, in a
\* folder whose other document, without color and media path, loads.
C17_Witness ==
    /\ call.op = "load_record"
    /\ call.path \in DOMAIN files
    /\ result.raised
    /\ \E p \in DOMAIN files :
            /\ files[p].wellformed
            /\ files[p].root.mediaPath = None
            /\ files[p].root.sections # <<>>
            /\ files[p].root.sections[1].color = None
            /\ ~load_record(files, p).raised

(***************************************************************************)
(* The repository asked for the document of a media file.                  *)
(***************************************************************************)
MediaA == <<"/", "m", "/", "a">>

\* Media paths stored in documents: none, absolute, relative to the working
\* directory, padded with a detour, of another file, under an unknown user.
StoredMediaPaths ==
    { None, MediaA, <<"a">>,
      <<" ", "/", "m", "/", "x", "/", ".", ".", "/", "a", " ">>,
      <<"/", "m", "/", "b">>,
      <<"~", "u", "/", "a">> }

FindDocuments ==
    {Malformed} \cup {Document(TRUE, XmlRoot(<<"v">>, <<"T">>, mp, <<>>)) : mp \in StoredMediaPaths}

FindFolders ==
    UNION {{folder \in [names -> FindDocuments] :
                OtherName \in names => folder[OtherName] = Malformed} :
            names \in {n \in SUBSET (SearchNames \cup {OtherName}) : Cardinality(n) <= MaxFiles}}

\* Media files asked for.
FindTargets == {MediaA, <<"a">>, <<"~", "/", "a">>, <<"/", "m", "/", ".", "/", "b">>}

InitFind ==
    /\ folder_exists = TRUE
    /\ files \in FindFolders
    /\ record = MetadataRecord(<<>>, <<>>, <<>>, <<>>)
    /\ before = record
    /\ call = NoCall
    /\ result = Returned(None)
    /\ session = NoSession
    /\ heap = CatalogHeap

FindMetadataForMedia(media_path) ==
    /\ call.op = "none"
    /\ call' = Call("find_metadata_for_media", media_path, None, <<>>, TRUE, None)
    /\ result' = find_metadata_for_media(folder_exists, files, media_path)
    /\ UNCHANGED <<files, folder_exists, record, before, session, heap>>

NextFind == \E media_path \in FindTargets : FindMetadataForMedia(media_path)

SpecFind == InitFind /\ [][NextFind]_vars

(***************************************************************************)
(* C18                                                                     *)
(***************************************************************************)
Found == call.op = "find_metadata_for_media"

\* The documents that load and store a media path resolving to the target's.
Hits ==
    {p \in Loadable :
        /\ LoadedRecord(p).media_path # <<>>
        /\ RecordMediaPath(LoadedRecord(p).media_path) = resolve(expanduser(call.path).value)}

\* C18: find_metadata_for_media(M) returns the document first in sorted path
\* order among those that load and whose stored media path resolves to the
\* resolved M, with its record; documents that do not load are passed over;
\* it returns None when there is no such document.
C18_FirstMatchInPathOrder ==
    Found =>
        /\ ~result.raised
        /\ IF Hits = {} THEN result.value = None
           ELSE \E p \in Hits :
                    /\ \A q \in Hits \ {p} : StrLess(p, q)
                    /\ result.value = Matched(p, LoadedRecord(p))

\* C18 witness: of two matching documents the first in path order is
\* returned, stored under another spelling than the path asked for, after
\* a document that does not load.
C18_Witness ==
    /\ Found
    /\ Cardinality(Hits) = 2
    /\ \E p \in Glob(files) \ Loadable : \A q \in Hits : StrLess(p, q)
    /\ \A q \in Hits : LoadedRecord(q).media_path # call.path

(***************************************************************************)
(* C19                                                                     *)
(***************************************************************************)
TitleMutated == call.op \in {"set_record_title", "build_record_from_session"}

\* C19: after set_record_title or build_record_from_session the title of
\* the record is the value of the field Title of its Administrative section,
\* when it has one.
C19_TitleMirrored ==
    TitleMutated =>
        \A i \in 1..Len(record.sections) :
            record.sections[i].name = Administrative =>
                /\ DictHas(record.sections[i].fields, Title)
                /\ DictGet(record.sections[i].fields, Title, None) = record.title

\* C19 witness: a title typed with padding has replaced another one, in a
\* record whose Administrative section was there before normalization.
C19_Witness ==
    /\ call.op = "build_record_from_session"
    /\ record.title = <<"N">>
    /\ before.title \notin {<<>>, <<"N">>}
    /\ \E i \in 1..Len(record.sections) :
            /\ record.sections[i].name = Administrative
            /\ DictHas(record.sections[i].fields, <<"L", "e", "g", "a", "c", "y">>)

(***************************************************************************)
(* C20                                                                     *)
(***************************************************************************)
\* The number of fields of the first n sections.
RECURSIVE FieldCount(_, _)
FieldCount(sections, n) ==
    IF n = 0 THEN 0 ELSE FieldCount(sections, n - 1) + Len(sections[n].fields)

\* The flattened view has one entry per field of the record, with its value.
FlattenFaithful(rec) ==
    /\ Len(flatten(rec)) = FieldCount(rec.sections, Len(rec.sections))
    /\ \A i \in 1..Len(rec.sections) :
            \A j \in 1..Len(rec.sections[i].fields) :
                LET k == FlatKey(rec.sections[i].name, rec.sections[i].fields[j].name)
                IN  /\ DictHas(flatten(rec), k)
                    /\ DictGet(flatten(rec), k, None) = rec.sections[i].fields[j].value

\* C20 as claimed: flatten() of a record that load_record returned has
\* exactly one entry 'section:field' -> value for each field of each section:
\* as many entries as the sections have fields, none missing, none with
\* another value.
C20_FlattenLosesNothing ==
    (call.op = "load_record" /\ ~result.raised) => FlattenFaithful(result.value)

(***************************************************************************)
(* C21                                                                     *)
(***************************************************************************)
\* No two sections of the record carry one name.
OneSectionPerName(rec) ==
    \A i, j \in 1..Len(rec.sections) :
        i # j => rec.sections[i].name # rec.sections[j].name

\* C21 as claimed: a record load_record returns holds at most one section
\* per section name.
C21_OneSectionPerName ==
    (call.op = "load_record" /\ ~result.raised) => OneSectionPerName(result.value)

(***************************************************************************)
(* C23, C25, C26, C30                                                      *)
(***************************************************************************)
BlankSection(definition) ==
    MetadataSection(definition.name,
        [j \in 1..Len(definition.fields) |-> Entry(definition.fields[j], <<>>)],
        definition.color)

BlankRecord(media_type) ==
    LET definitions == get_default_sections(media_type)
    IN  MetadataRecord(<<>>, media_type,
            [i \in 1..Len(definitions) |-> BlankSection(definitions[i])], <<>>)

\* C23 as claimed: create_empty_record(media_type) returns a record with empty
\* title and media path, the given media type and one section per schema
\* section in schema order, with the schema color and every schema field "".
C23_CreateEmptyRecord ==
    call.op = "create_empty_record" =>
        /\ ~result.raised
        /\ result.value = BlankRecord(call.path)

Known == {<<"v", "i", "d", "e", "o">>, <<"a", "u", "d", "i", "o">>, <<"i", "m", "a", "g", "e">>}

Unknown(media_type) == Lower(media_type) \notin Known

FollowsVideoAudio(rec) ==
    /\ Len(rec.sections) = Len(VIDEO_AUDIO_SECTIONS)
    /\ \A i \in 1..Len(rec.sections) :
        /\ rec.sections[i].name = VIDEO_AUDIO_SECTIONS[i].name
        /\ \A j \in 1..Len(VIDEO_AUDIO_SECTIONS[i].fields) :
                DictHas(rec.sections[i].fields, VIDEO_AUDIO_SECTIONS[i].fields[j])

\* C25 as claimed: for a media type that is none of video, audio, image
\* whatever the case, get_default_sections returns the video/audio layout,
\* so normalizing and creating a record of that type use the video/audio
\* schema and do not fail.
C25_UnknownTypeFallsBack ==
    /\ \A m \in NormMediaTypes :
            Unknown(m) => get_default_sections(m) = VIDEO_AUDIO_SECTIONS
    /\ (Normalized /\ Unknown(record.media_type)) =>
            ~result.raised /\ FollowsVideoAudio(record)
    /\ (call.op = "create_empty_record" /\ Unknown(call.path)) =>
            ~result.raised /\ FollowsVideoAudio(result.value)

\* The parts of C25 that do not create a record.
C25_NormalizingFallsBack ==
    /\ \A m \in NormMediaTypes :
            Unknown(m) => get_default_sections(m) = VIDEO_AUDIO_SECTIONS
    /\ (Normalized /\ Unknown(record.media_type)) =>
            ~result.raised /\ FollowsVideoAudio(record)

Matches(name) ==
    {i \in 1..Len(record.sections) : Lower(record.sections[i].name) = Lower(name)}

\* C26: get_section(name) returns the first section whose lower-cased name
\* equals the lower-cased argument, and None when no section matches.
C26_GetSectionFirstMatch ==
    call.op = "get_section" =>
        /\ ~result.raised
        /\ Matches(call.path) = {} => result.value = <<>>
        /\ \A i \in Matches(call.path) :
                (\A j \in Matches(call.path) : i <= j) => result.value = <<record.sections[i]>>

\* get_section returned a section whose name differs in case from the name
\* asked for, and a later section matches as well.
C26_Witness ==
    /\ call.op = "get_section"
    /\ result.value # <<>>
    /\ result.value[1].name # call.path
    /\ Cardinality(Matches(call.path)) > 1

\* C30: ensure_default_fields returns the record it was given, and the
\* title, the media type and the media path of that record are the same
\* after the call as before.
C30_OnlySectionsChange ==
    Normalized =>
        /\ ~result.raised
        /\ result.value = record
        /\ record.title = before.title
        /\ record.media_type = before.media_type
        /\ record.media_path = before.media_path

\* The normalizer changed the sections of a titled record.
C30_Witness ==
    /\ Normalized
    /\ record.sections # before.sections
    /\ record.title # <<>>

(***************************************************************************)
(* The catalog and a caller of get_default_sections.  The caller holds the *)
(* list the last call returned (its address is the result) and mutates it; *)
(* before is the content of the list it held when it called again.         *)
(***************************************************************************)
CatalogMediaTypes ==
    {<<"V", "i", "d", "e", "o">>, <<"A", "U", "D", "I", "O">>, <<"i", "m", "a", "g", "e">>,
     <<"p", "d", "f">>}

InitCatalog ==
    /\ files = EmptyFolder
    /\ folder_exists = TRUE
    /\ record = None
    /\ before = <<>>
    /\ call = NoCall
    /\ result = Returned(0)
    /\ session = NoSession
    /\ heap = CatalogHeap

ListHeld == call.op # "none"

\* get_default_sections(media_type); the call keeps the argument in path.
\* The list the caller held before is dropped, the catalog objects stay.
GetDefaultSections(media_type) ==
    LET kept == SubSeq(heap, 1, Len(CatalogHeap))
        new == NewDefaultSections(kept, media_type)
    IN  /\ before' = IF ListHeld THEN Deref(heap, result.value) ELSE <<>>
        /\ heap' = new.heap
        /\ result' = Returned(new.addr)
        /\ call' = Call("get_default_sections", media_type, None, <<>>, TRUE, None)
        /\ UNCHANGED <<files, folder_exists, record, session>>

\* returned[i].fields.append("X")
AppendField(i) ==
    /\ ListHeld
    /\ i \in 1..Len(heap[result.value])
    /\ ~InSeq(heap[heap[result.value][i].fields], <<"X">>)
    /\ heap' = [heap EXCEPT ![heap[result.value][i].fields] = Append(@, <<"X">>)]
    /\ call' = Call("append", call.path, None, <<>>, TRUE, None)
    /\ UNCHANGED <<files, folder_exists, record, before, result, session>>

\* returned.pop(), once on a list
PopSection ==
    /\ ListHeld
    /\ Len(heap[result.value]) = Len(get_default_sections(call.path))
    /\ heap' = [heap EXCEPT ![result.value] = SubSeq(@, 1, Len(@) - 1)]
    /\ call' = Call("pop", call.path, None, <<>>, TRUE, None)
    /\ UNCHANGED <<files, folder_exists, record, before, result, session>>

NextCatalog ==
    \/ \E media_type \in CatalogMediaTypes : GetDefaultSections(media_type)
    \/ \E i \in 1..MaxSections : AppendField(i)
    \/ PopSection

SpecCatalog == InitCatalog /\ [][NextCatalog]_vars

\* C24: get_default_sections returns a copy of the catalog: whatever the
\* caller does to the list returned or to the field list of a section in
\* it, the catalog keeps its names, colors and fields, and every call
\* returns the layout of its media type as the catalog defines it.
C24_CatalogUntouched ==
    /\ Deref(heap, VideoAudioAddr) = VIDEO_AUDIO_SECTIONS
    /\ Deref(heap, ImageAddr) = IMAGE_SECTIONS
    /\ call.op = "get_default_sections" =>
            Deref(heap, result.value) = get_default_sections(call.path)

\* A call made after the caller changed the field list of a section of the
\* list an earlier call returned.
C24_Witness ==
    /\ call.op = "get_default_sections"
    /\ before # <<>>
    /\ before[1].name = Deref(heap, result.value)[1].name
    /\ before[1].fields # Deref(heap, result.value)[1].fields

(***************************************************************************)
(* The form session: script runs and the handlers of the metadata form     *)
(***************************************************************************)
MEDIA_TYPES == <<<<"V", "i", "d", "e", "o">>, <<"A", "u", "d", "i", "o">>,
                 <<"I", "m", "a", "g", "e">>>>

\* What a script run leaves: the session, and whether it raised.
Ran(session_state) == [raised |-> FALSE, session |-> session_state]

Aborted(session_state) == [raised |-> TRUE, session |-> session_state]

\* initialize_session_state: the defaults of the keys that are not set, the
\* document path set to None, a blank record when the session has none.
initialize_session_state(s) ==
    LET typed == [s EXCEPT !.media_type = IF @ = None THEN MEDIA_TYPES[1] ELSE @]
        unpathed == [typed EXCEPT !.current_xml_path = None]
        pathed == [unpathed EXCEPT !.current_media_path = IF @ = None THEN <<>> ELSE @]
        input == [pathed EXCEPT !.media_path_input =
                        IF @ = None THEN pathed.current_media_path ELSE @]
        created == create_empty_record(input.media_type)
    IN  IF input.current_record # <<>> THEN Ran(input)
        ELSE IF created.raised THEN Aborted(input)
        ELSE Ran([input EXCEPT !.current_record = <<created.value>>,
                               !.fields = initialize_field_values(created.value) @@ @,
                               !.current_media_path = Strip(created.value.media_path),
                               !.media_path_input = Strip(created.value.media_path)])

\* render_metadata_form up to the widgets: the record normalized, the
\* pending media path popped into the media path keys.
render_metadata_form(s) ==
    LET normalized == [s EXCEPT !.current_record = <<ensure_default_fields(@[1])>>]
        pending == normalized.media_path_input_pending
    IN  IF pending # None
        THEN [normalized EXCEPT !.media_path_input_pending = None,
                                !.media_path_input = pending,
                                !.current_media_path = pending]
        ELSE normalized

\* main: one script run on the form screen in which no widget fired.
main(s) ==
    LET initialized == initialize_session_state(s)
    IN  IF initialized.raised THEN initialized
        ELSE Ran(render_metadata_form(initialized.session))

\* load_record_into_session, path None for no path, and the script run that
\* trigger_rerun starts.
load_record_into_session(s, rec, path) ==
    LET normalized == ensure_default_fields(rec)
    IN  main([s EXCEPT !.current_record = <<normalized>>,
                       !.media_type = normalized.media_type,
                       !.current_xml_path = path,
                       !.current_media_path = Strip(normalized.media_path),
                       !.media_path_input_pending = Strip(normalized.media_path)])

\* st.session_state.get(MEDIA_PATH_INPUT_KEY, st.session_state.get(MEDIA_PATH_KEY, ""))
MediaPathInput(s) ==
    IF s.media_path_input # None THEN s.media_path_input
    ELSE IF s.current_media_path # None THEN s.current_media_path
    ELSE <<>>

\* What a handler leaves: what it showed, the session, the folder and the
\* path it wrote, None for none.
Handled(shown, session_state, folder, path) ==
    [shown |-> shown, session |-> session_state, files |-> folder, path |-> path]

\* handle_create_xml: the record built from the form, the two validations,
\* the save with the session's document path as hint, the record loaded back.
handle_create_xml(s, folder) ==
    LET built == build_record_from_session(s.current_record[1], s.fields, s.media_type,
                                           MediaPathInput(s))
        media_path == Strip(MediaPathInput(s))
        saved == save_record(folder, [built EXCEPT !.media_path = media_path],
                             s.current_xml_path)
        loaded == load_record_into_session(s, [built EXCEPT !.media_path = media_path],
                                           saved.path)
    IN  IF media_path = <<>> THEN Handled("media_missing", s, folder, None)
        ELSE IF built.title = <<>> THEN Handled("title_missing", s, folder, None)
        ELSE Handled("saved", loaded.session, saved.files, saved.path)

\* The documents of the folder when the session starts: two records of the
\* schema's sections and a file that does not parse.
DocumentA == <<"a">> \o XmlSuffix

DocumentB == <<"b">> \o XmlSuffix

DocumentX == <<"x">> \o XmlSuffix

Identifier == <<"I", "d", "e", "n", "t", "i", "f", "i", "e", "r">>

SessionFolder ==
    [p \in {DocumentA, DocumentB, DocumentX} |->
        IF p = DocumentA
        THEN WriteDocument(MetadataRecord(<<"A">>, MEDIA_TYPES[1],
                <<MetadataSection(Administrative, <<Entry(Title, <<"A">>)>>, None)>>, <<"m">>))
        ELSE IF p = DocumentB
        THEN WriteDocument(MetadataRecord(<<"B">>, MEDIA_TYPES[3],
                <<MetadataSection(Administrative,
                    <<Entry(Title, <<"B">>), Entry(Identifier, <<"i">>)>>, None)>>, <<>>))
        ELSE Document(FALSE, XmlRoot(None, None, None, <<>>))]

\* What the user types into the title and the media path widgets, None for
\* a widget left alone.
TypedTitles == {None, <<>>, <<" ">>, <<"A">>, <<"N">>}

TypedMediaPaths == {None, <<>>, <<" ", "m", " ">>}

\* Under SpecSession record is the path of the document the record of the
\* session came from, None for none, and before is the folder, the session
\* and that path as the last script run found them.
InitSession ==
    /\ files = SessionFolder
    /\ folder_exists = TRUE
    /\ record = None
    /\ before = [files |-> files, session |-> NoSession, document |-> None]
    /\ call = NoCall
    /\ result = Returned("none")
    /\ session = NoSession
    /\ heap = CatalogHeap

FormShown == session.current_record # <<>>

\* A script run in which no widget fired.
ScriptRun ==
    LET ran == main(session)
    IN  /\ before' = [files |-> files, session |-> session, document |-> record]
        /\ session' = ran.session
        /\ call' = Call("main", None, None, <<>>, TRUE, None)
        /\ result' = IF ran.raised THEN Raised("TypeError") ELSE Returned("shown")
        /\ UNCHANGED <<files, folder_exists, record, heap>>

\* Load Selected on a file of the folder, or Open on a search result.
LoadSelected(path) ==
    LET loaded == load_record(files, path)
        ran == load_record_into_session(session, loaded.value, path)
    IN  /\ before' = [files |-> files, session |-> session, document |-> record]
        /\ call' = Call("load_record_into_session", path, None, <<>>, TRUE, None)
        /\ IF loaded.raised
           THEN /\ result' = Returned("load_failed")
                /\ UNCHANGED <<session, record>>
           ELSE /\ result' = Returned("loaded")
                /\ session' = ran.session
                /\ record' = path
        /\ UNCHANGED <<files, folder_exists, heap>>

\* The widget values a form submission writes to the session.
Typed(s, title, media_path) ==
    LET titled == IF title = None THEN s
                  ELSE [s EXCEPT !.fields = SessionSet(@, TITLE_FIELD_KEY, title)]
    IN  IF media_path = None THEN titled
        ELSE [titled EXCEPT !.media_path_input = media_path]

\* Save Metadata on the form, the title and the media path typed or left
\* alone; the call keeps what was typed in path and path_hint.
SaveMetadata(title, media_path) ==
    LET typed == Typed(session, title, media_path)
        handled == handle_create_xml(typed, files)
    IN  /\ FormShown
        /\ Cardinality(DOMAIN handled.files) <= MaxFiles + 1
        /\ before' = [files |-> files, session |-> typed, document |-> record]
        /\ call' = Call("handle_create_xml", title, media_path, <<>>, TRUE, None)
        /\ result' = Returned(handled.shown)
        /\ session' = handled.session
        /\ files' = handled.files
        /\ record' = IF handled.path = None THEN record ELSE handled.path
        /\ UNCHANGED <<folder_exists, heap>>

\* Reset Form: handle_clear_form asks create_empty_record for a blank record.
\* A session that was reset counts as holding no document's record.
ResetForm ==
    LET created == create_empty_record(session.media_type)
        ran == load_record_into_session(session, created.value, None)
    IN  /\ FormShown
        /\ before' = [files |-> files, session |-> session, document |-> record]
        /\ call' = Call("handle_clear_form", None, None, <<>>, TRUE, None)
        /\ IF created.raised
           THEN /\ result' = Raised("TypeError")
                /\ UNCHANGED session
           ELSE /\ result' = Returned("cleared")
                /\ session' = ran.session
        /\ record' = None
        /\ UNCHANGED <<files, folder_exists, heap>>

NextSession ==
    \/ ScriptRun
    \/ \E path \in DOMAIN files : LoadSelected(path)
    \/ \E title \in TypedTitles, media_path \in TypedMediaPaths :
            SaveMetadata(title, media_path)
    \/ ResetForm

SpecSession == InitSession /\ [][NextSession]_vars

(***************************************************************************)
(* C22, C27, C28                                                           *)
(***************************************************************************)
Saving == call.op = "handle_create_xml"

TitleInForm == SessionGet(before.session.fields, TITLE_FIELD_KEY)

\* C22 as claimed: a save from the form whose title or media path is empty
\* after trimming is rejected with an error: no document is created or
\* modified, and the record and the document path of the session stay.
C22_EmptyRejected ==
    (Saving /\ (Strip(TitleInForm) = <<>> \/ Strip(MediaPathInput(before.session)) = <<>>)) =>
        /\ result.value \in {"media_missing", "title_missing"}
        /\ files = before.files
        /\ session.current_record = before.session.current_record
        /\ session.current_xml_path = before.session.current_xml_path

\* C27 as claimed: the save that follows the load of a document, or a save
\* to it, with no other load or reset in between, overwrites that document
\* and creates no other.
C27_SaveOverwritesLoaded ==
    (Saving /\ result.value = "saved" /\ before.document # None) =>
        /\ record = before.document
        /\ DOMAIN files = DOMAIN before.files

ValueIn(rec, section_name, field_name) ==
    LET found == {i \in 1..Len(rec.sections) : rec.sections[i].name = section_name}
    IN  IF found = {} THEN None
        ELSE DictGet(rec.sections[CHOOSE i \in found : TRUE].fields, field_name, None)

\* C28 as claimed: once a record is loaded into the session, the record
\* built from the session with no edit holds, for every section and field
\* of the loaded record, the value loaded.
C28_BuildYieldsLoaded ==
    (call.op = "load_record_into_session" /\ result.value = "loaded") =>
        LET loaded == load_record(files, call.path).value
            built == build_record_from_session(session.current_record[1], session.fields,
                                               session.media_type, MediaPathInput(session))
        IN  \A i \in 1..Len(loaded.sections) :
                \A j \in 1..Len(loaded.sections[i].fields) :
                    ValueIn(built, loaded.sections[i].name, loaded.sections[i].fields[j].name)
                        = loaded.sections[i].fields[j].value

(***************************************************************************)
(* C29                                                                     *)
(***************************************************************************)
IsSubsequence(part, whole) ==
    \E at \in [1..Len(part) -> 1..Len(whole)] :
        /\ \A i \in 1..Len(part) : part[i] = whole[at[i]]
        /\ \A i, j \in 1..Len(part) : i < j => at[i] < at[j]

Unfiltered == search(folder_exists, files, <<>>, TRUE, None).value

WithoutText == search(folder_exists, files, call.filters, call.match_all, None).value

\* C29: filters and text query only narrow a search: the result is a
\* subsequence of the result of the search of the same folder with no filter
\* and no text query, and of the result of the same search without its text
\* query.
C29_OnlyNarrows ==
    SearchReturned =>
        /\ IsSubsequence(result.value, Unfiltered)
        /\ IsSubsequence(result.value, WithoutText)

\* A search with a filter and a text query that kept some documents of the
\* folder and dropped others, the text query dropping one the filters kept.
C29_Witness ==
    /\ SearchReturned
    /\ call.filters # <<>>
    /\ Query # <<>>
    /\ result.value # <<>>
    /\ Len(result.value) < Len(WithoutText)
    /\ Len(WithoutText) < Len(Unfiltered)
====
